---- MODULE Spec2Model ----
(***************************************************************************)
(* A model of the File Analyzer (src/p1-File-Analyzer): the content        *)
(* analyzers, the dispatcher, the report renderers and the command line    *)
(* driver.                                                                 *)
(*                                                                         *)
(* Representation of Python values:                                        *)
(*   str            a sequence of one-character strings                    *)
(*                  (fixed texts of the program are TLA+ strings)          *)
(*   list           a sequence                                             *)
(*   tuple (a, b)   the record [t0 |-> a, t1 |-> b]                        *)
(*   dict           a record (a function on its keys)                      *)
(*   None           the record None                                        *)
(*   a float with two decimals: the integer number of hundredths           *)
(*   a time stamp: the integer number of milliseconds                      *)
(***************************************************************************)
EXTENDS Integers, Sequences, FiniteSets, TLC

VARIABLES
    pc,         \* the position of the driver
    content,    \* the decoded text handed to the text statistics
    nchunks,    \* how many pieces the text under construction has
    nwords,     \* how many distinct vocabulary words it uses so far
    result,     \* content_analysis: the analysis result (a dict), or None
    mode,       \* "interactive" or "single": how main() runs the driver
    file,       \* file_path: the file the request is about
    fmt,        \* output_format
    save_report, \* the --save argument of the single file mode
    file_info,  \* the dict get_file_info returned, or None
    displayed,  \* what display_results printed for this request, or None
    saved,      \* the report file save_report_option wrote for it, or None
    now,        \* the clock datetime.now() reads
    retval,     \* what run_single_file_mode returned, or None
    analyses,   \* calls of analyze_content made for this request
    renders,    \* calls of a generate_* renderer made for this request
    opens,      \* calls of open() made by the last analyze_content
    raised,     \* the exception that left the last analyze_content, or None
    last_env,   \* what the surroundings did during the last analyze_file
    uncaught    \* the exception that reached main(), or None

textvars == <<content, nchunks, nwords>>

clivars == <<mode, file, fmt, save_report, file_info, displayed, saved, now, retval,
             analyses, renders, opens, raised, last_env, uncaught>>

vars == <<pc, result, textvars, clivars>>

None == [none |-> TRUE]

(***************************************************************************)
(* Bounds of the model.                                                    *)
(***************************************************************************)
MaxChunks == 6
MaxTime == 1
MaxChars == 8
MaxKeys == 11
MaxLines == 4

(***************************************************************************)
(* Characters.                                                             *)
(***************************************************************************)
LowerLetters == {"a", "c", "d", "e", "f", "g", "h", "l", "n", "o", "t", "u", "x"}
UpperLetters == {"T", "H", "E"}
Digits == {"1"}

\* str.lower() on one character
LowerChar(c) ==
    CASE c = "T" -> "t"
      [] c = "H" -> "h"
      [] c = "E" -> "e"
      [] OTHER -> c

\* str.lower()
Lower(s) == [i \in 1..Len(s) |-> LowerChar(s[i])]

\* the class [a-zA-Z] of the word pattern
IsLetter(c) == c \in LowerLetters \cup UpperLetters

\* the class \w that decides a word boundary \b
IsWordChar(c) == IsLetter(c) \/ c \in Digits \/ c = "_"

\* the characters str.split() splits on
IsSpace(c) == c \in {" ", "\n", "\t"}

(***************************************************************************)
(* content.split('\n'): the segments between newlines, the empty ones and  *)
(* the trailing one included.                                              *)
(***************************************************************************)
RECURSIVE SplitNLAcc(_, _, _, _)
SplitNLAcc(s, i, cur, acc) ==
    IF i > Len(s) THEN Append(acc, cur)
    ELSE IF s[i] = "\n" THEN SplitNLAcc(s, i + 1, <<>>, Append(acc, cur))
    ELSE SplitNLAcc(s, i + 1, Append(cur, s[i]), acc)

\* a variant that leaves out the empty segment after a final line feed, as
\* str.splitlines does
SplitLinesKeepends(s) ==
    LET all == SplitNLAcc(s, 1, <<>>, <<>>)
    IN IF Len(all) > 1 /\ all[Len(all)] = <<>> THEN SubSeq(all, 1, Len(all) - 1) ELSE all

SplitLines(s) == SplitNLAcc(s, 1, <<>>, <<>>)

(***************************************************************************)
(* content.split(): the maximal runs of non-whitespace characters.         *)
(***************************************************************************)
RECURSIVE SplitWSAcc(_, _, _, _)
SplitWSAcc(s, i, cur, acc) ==
    IF i > Len(s) THEN (IF cur = <<>> THEN acc ELSE Append(acc, cur))
    ELSE IF IsSpace(s[i])
         THEN SplitWSAcc(s, i + 1, <<>>, IF cur = <<>> THEN acc ELSE Append(acc, cur))
    ELSE SplitWSAcc(s, i + 1, Append(cur, s[i]), acc)

SplitWords(s) == SplitWSAcc(s, 1, <<>>, <<>>)

\* content.replace(' ', '').replace('\n', '').replace('\t', '')
StripSpaces(s) == SelectSeq(s, LAMBDA c : ~IsSpace(c))

(***************************************************************************)
(* re.compile(r'\b[a-zA-Z]{3,}\b').findall(text)                           *)
(***************************************************************************)
\* \b between s[k-1] and s[k]: exactly one side is a word character
Boundary(s, k) ==
    LET left == k - 1 >= 1 /\ k - 1 <= Len(s) /\ IsWordChar(s[k - 1])
        right == k >= 1 /\ k <= Len(s) /\ IsWordChar(s[k])
    IN left # right

\* the last index of the run of letters that starts at i (i - 1 when s[i] is no letter)
RECURSIVE LetterRunEnd(_, _)
LetterRunEnd(s, i) ==
    IF i <= Len(s) /\ IsLetter(s[i]) THEN LetterRunEnd(s, i + 1) ELSE i - 1

\* the greedy quantifier gives back letters until a \b follows; 0 when none does
RECURSIVE BackOff(_, _, _)
BackOff(s, i, j) ==
    IF j < i + 2 THEN 0
    ELSE IF Boundary(s, j + 1) THEN j
    ELSE BackOff(s, i, j - 1)

\* the end of the match of the pattern at i, or 0
MatchAt(s, i) ==
    IF Boundary(s, i) THEN BackOff(s, i, LetterRunEnd(s, i)) ELSE 0

RECURSIVE FindAllFrom(_, _)
FindAllFrom(s, i) ==
    IF i > Len(s) THEN <<>>
    ELSE LET m == MatchAt(s, i)
         IN IF m > 0 THEN <<SubSeq(s, i, m)>> \o FindAllFrom(s, m + 1)
            ELSE FindAllFrom(s, i + 1)

word_pattern_findall(s) == FindAllFrom(s, 1)

(***************************************************************************)
(* collections.Counter(words): the (word, count) items in the order the    *)
(* words were first seen.                                                  *)
(***************************************************************************)
CountOne(acc, w) ==
    IF \E j \in 1..Len(acc) : acc[j].t0 = w
    THEN [j \in 1..Len(acc) |->
            IF acc[j].t0 = w THEN [t0 |-> w, t1 |-> acc[j].t1 + 1] ELSE acc[j]]
    ELSE Append(acc, [t0 |-> w, t1 |-> 1])

RECURSIVE CounterAcc(_, _, _)
CounterAcc(ws, i, acc) ==
    IF i > Len(ws) THEN acc ELSE CounterAcc(ws, i + 1, CountOne(acc, ws[i]))

Counter(ws) == CounterAcc(ws, 1, <<>>)

\* Counter.most_common(n): the n items of largest count, equal counts in the
\* order first seen (a stable sort by descending count, cut to n)
RECURSIVE MostCommonAcc(_, _, _)
MostCommonAcc(items, n, acc) ==
    IF n = 0 \/ items = <<>> THEN acc
    ELSE LET best == CHOOSE j \in 1..Len(items) :
                        /\ \A k \in 1..Len(items) : items[k].t1 <= items[j].t1
                        /\ \A k \in 1..(j - 1) : items[k].t1 < items[j].t1
             rest == [k \in 1..(Len(items) - 1) |->
                        IF k < best THEN items[k] ELSE items[k + 1]]
         IN MostCommonAcc(rest, n - 1, Append(acc, items[best]))

\* a variant that keeps the first n items as counted, unsorted
most_common_unsorted(items, n) == SubSeq(items, 1, IF Len(items) < n THEN Len(items) ELSE n)

most_common(items, n) == MostCommonAcc(items, n, <<>>)

TopN == 5

\* a variant that cuts the quotient to two decimals instead of rounding it
Round2Truncating(a, b) == (100 * a) \div b

\* round(a / b, 2) in hundredths, ties to the even hundredth (b > 0, a >= 0)
Round2(a, b) ==
    LET q == (100 * a) \div b
        r == (100 * a) % b
    IN IF 2 * r > b \/ (2 * r = b /\ q % 2 = 1) THEN q + 1 ELSE q

Max(a, b) == IF a >= b THEN a ELSE b

(***************************************************************************)
(* TextAnalyzer.analyze_text_file, after decoding: the statistics of the   *)
(* decoded content.                                                        *)
(***************************************************************************)
common_words_of(text) == most_common(Counter(word_pattern_findall(Lower(text))), TopN)

TextStatistics(text, encoding) ==
    LET lines == SplitLines(text)
        words == SplitWords(text)
    IN [total_lines |-> Len(lines),
        total_words |-> Len(words),
        total_characters |-> Len(text),
        characters_no_spaces |-> Len(StripSpaces(text)),
        average_words_per_line |-> Round2(Len(words), Max(Len(lines), 1)),
        common_words |-> common_words_of(text),
        encoding_used |-> encoding]

(***************************************************************************)
(* Exceptions.  A computation ends in [ret |-> value] or in                *)
(* [exc |-> class, msg |-> str(e)].                                        *)
(***************************************************************************)
Return(v) == [ret |-> v]
Raise(e, m) == [exc |-> e, msg |-> m]
Returned(o) == "ret" \in DOMAIN o

(***************************************************************************)
(* open(file_path, 'r', encoding=e) and file.read().  What the bytes of a  *)
(* file do under each codec:                                               *)
(*   ascii         bytes below 128 only                                    *)
(*   utf8          valid UTF-8 with a byte above 127                       *)
(*   utf16_bom     a byte order mark and valid UTF-16 after it (the mark   *)
(*                 is no valid UTF-8 and no ASCII)                         *)
(*   not_utf16     not UTF-8, and as UTF-16 truncated or ill-formed        *)
(*   no_bom        not UTF-8, an even number of bytes that decode as       *)
(*                 UTF-16 but start with no byte order mark: the codec     *)
(*                 raises UnicodeError, which is not a UnicodeDecodeError  *)
(* latin-1 decodes every byte.  env.open_fails: the file cannot be opened  *)
(* any more (OSError).  The text a file decodes to is taken to be the same *)
(* under every codec that decodes it.                                      *)
(***************************************************************************)
ByteKinds == {"ascii", "utf8", "utf16_bom", "not_utf16", "no_bom"}

Decode(bytes, encoding) ==
    CASE encoding = "utf-8" ->
            IF bytes \in {"ascii", "utf8"} THEN "ok" ELSE "UnicodeDecodeError"
      [] encoding = "utf-16" ->
            IF bytes = "utf16_bom" THEN "ok"
            ELSE IF bytes = "not_utf16" THEN "UnicodeDecodeError"
            ELSE "UnicodeError"
      [] encoding = "ascii" ->
            IF bytes = "ascii" THEN "ok" ELSE "UnicodeDecodeError"
      [] OTHER -> "ok"

OpenRead(f, encoding, env) ==
    IF env.open_fails
    THEN Raise("FileNotFoundError", "[Errno 2] No such file or directory")
    ELSE LET d == Decode(f.bytes, encoding)
         IN CASE d = "ok" -> Return(f.text)
              [] d = "UnicodeError" ->
                    Raise("UnicodeError", "UTF-16 stream does not start with BOM")
              [] OTHER -> Raise("UnicodeDecodeError", "codec can't decode byte")

encodings == <<"utf-8", "utf-16", "ascii", "latin-1">>

(***************************************************************************)
(* TextAnalyzer.analyze_text_file.  The loop over the encodings: a         *)
(* UnicodeDecodeError goes on to the next encoding, any other exception    *)
(* leaves the loop for the handler of the whole function.                  *)
(***************************************************************************)
RECURSIVE TryEncodings(_, _, _)
TryEncodings(f, env, i) ==
    IF i > Len(encodings)
    THEN Return([content |-> None, encoding |-> encodings[Len(encodings)],
                 opens |-> Len(encodings)])
    ELSE LET o == OpenRead(f, encodings[i], env)
         IN IF Returned(o)
            THEN Return([content |-> [str |-> o.ret], encoding |-> encodings[i],
                         opens |-> i])
            ELSE IF o.exc = "UnicodeDecodeError" THEN TryEncodings(f, env, i + 1)
            ELSE [exc |-> o.exc, msg |-> o.msg, opens |-> i]

\* the body of the function's try block
analyze_text_body(f, env) ==
    LET t == TryEncodings(f, env, 1)
    IN IF ~Returned(t) THEN t
       ELSE IF t.ret.content = None
            THEN [ret |-> [error |-> <<"Could not decode file with supported encodings">>],
                  opens |-> t.ret.opens]
       ELSE [ret |-> TextStatistics(t.ret.content.str, t.ret.encoding),
             opens |-> t.ret.opens]

\* a variant without the handler of the whole function
analyze_text_file_unguarded(f, env) == analyze_text_body(f, env)

analyze_text_file(f, env) ==
    LET b == analyze_text_body(f, env)
    IN IF Returned(b) THEN b
       ELSE [ret |-> [error |-> <<"Error analyzing text file: ", b.msg>>],
             opens |-> b.opens]

(***************************************************************************)
(* CodeAnalyzer.analyze_python_file                                        *)
(***************************************************************************)
\* str.strip()
RECURSIVE LStrip(_)
LStrip(s) == IF s # <<>> /\ IsSpace(s[1]) THEN LStrip(Tail(s)) ELSE s

RECURSIVE RStrip(_)
RStrip(s) ==
    IF s # <<>> /\ IsSpace(s[Len(s)]) THEN RStrip(SubSeq(s, 1, Len(s) - 1)) ELSE s

Strip(s) == RStrip(LStrip(s))

\* str.startswith(p)
StartsWith(s, p) == Len(s) >= Len(p) /\ SubSeq(s, 1, Len(p)) = p

\* str.count(sub): the occurrences that do not overlap, from the left
RECURSIVE CountFrom(_, _, _)
CountFrom(s, sub, i) ==
    IF i + Len(sub) - 1 > Len(s) THEN 0
    ELSE IF SubSeq(s, i, i + Len(sub) - 1) = sub
         THEN 1 + CountFrom(s, sub, i + Len(sub))
    ELSE CountFrom(s, sub, i + 1)

Count(s, sub) == CountFrom(s, sub, 1)

RECURSIVE SumSeq(_)
SumSeq(q) == IF q = <<>> THEN 0 ELSE Head(q) + SumSeq(Tail(q))

\* a variant of the keyword list in which "elif " is not a keyword of its
\* own
complexity_keywords_without_elif ==
    << <<"i", "f", " ">>, <<"e", "l", "s", "e", ":">>,
       <<"f", "o", "r", " ">>, <<"w", "h", "i", "l", "e", " ">>, <<"t", "r", "y", ":">>,
       <<"e", "x", "c", "e", "p", "t", ":">>, <<"w", "i", "t", "h", " ">> >>

complexity_keywords ==
    << <<"i", "f", " ">>, <<"e", "l", "i", "f", " ">>, <<"e", "l", "s", "e", ":">>,
       <<"f", "o", "r", " ">>, <<"w", "h", "i", "l", "e", " ">>, <<"t", "r", "y", ":">>,
       <<"e", "x", "c", "e", "p", "t", ":">>, <<"w", "i", "t", "h", " ">> >>

NumWhere(lines, P(_)) == Len(SelectSeq(lines, P))

\* a variant that tests the lines as they are, without line.strip()
PythonStatisticsUntrimmed(text) ==
    LET lines == SplitLines(text)
    IN [type |-> "Python Code",
        imports |-> NumWhere(lines, LAMBDA l :
                        \/ StartsWith(l, <<"i", "m", "p", "o", "r", "t", " ">>)
                        \/ StartsWith(l, <<"f", "r", "o", "m", " ">>)),
        functions |-> NumWhere(lines, LAMBDA l : StartsWith(l, <<"d", "e", "f", " ">>)),
        classes |-> NumWhere(lines, LAMBDA l :
                        StartsWith(l, <<"c", "l", "a", "s", "s", " ">>)),
        comments |-> NumWhere(lines, LAMBDA l : StartsWith(l, <<"#">>)),
        docstrings |-> (Count(text, <<"\"", "\"", "\"">>) \div 2)
                        + (Count(text, <<"'", "'", "'">>) \div 2),
        estimated_complexity |->
            SumSeq([k \in 1..Len(complexity_keywords) |-> Count(text, complexity_keywords[k])]),
        total_lines |-> Len(lines),
        blank_lines |-> NumWhere(lines, LAMBDA l : Strip(l) = <<>>)]

\* a variant that adds the two delimiter counts before halving them
PythonStatisticsQuotesPooled(text) ==
    LET lines == SplitLines(text)
    IN [type |-> "Python Code",
        imports |-> NumWhere(lines, LAMBDA l :
                        \/ StartsWith(Strip(l), <<"i", "m", "p", "o", "r", "t", " ">>)
                        \/ StartsWith(Strip(l), <<"f", "r", "o", "m", " ">>)),
        functions |-> NumWhere(lines, LAMBDA l : StartsWith(Strip(l), <<"d", "e", "f", " ">>)),
        classes |-> NumWhere(lines, LAMBDA l :
                        StartsWith(Strip(l), <<"c", "l", "a", "s", "s", " ">>)),
        comments |-> NumWhere(lines, LAMBDA l : StartsWith(Strip(l), <<"#">>)),
        docstrings |-> (Count(text, <<"\"", "\"", "\"">>)
                        + Count(text, <<"'", "'", "'">>)) \div 2,
        estimated_complexity |->
            SumSeq([k \in 1..Len(complexity_keywords) |-> Count(text, complexity_keywords[k])]),
        total_lines |-> Len(lines),
        blank_lines |-> NumWhere(lines, LAMBDA l : Strip(l) = <<>>)]

\* a variant of the counters that looks for "def " anywhere in a line
PythonStatisticsKeywordAnywhere(text) ==
    LET lines == SplitLines(text)
    IN [type |-> "Python Code",
        imports |-> NumWhere(lines, LAMBDA l :
                        \/ StartsWith(Strip(l), <<"i", "m", "p", "o", "r", "t", " ">>)
                        \/ StartsWith(Strip(l), <<"f", "r", "o", "m", " ">>)),
        functions |-> NumWhere(lines, LAMBDA l : Count(l, <<"d", "e", "f", " ">>) > 0),
        classes |-> NumWhere(lines, LAMBDA l :
                        StartsWith(Strip(l), <<"c", "l", "a", "s", "s", " ">>)),
        comments |-> NumWhere(lines, LAMBDA l : StartsWith(Strip(l), <<"#">>)),
        docstrings |-> (Count(text, <<"\"", "\"", "\"">>) \div 2)
                        + (Count(text, <<"'", "'", "'">>) \div 2),
        estimated_complexity |->
            SumSeq([k \in 1..Len(complexity_keywords) |-> Count(text, complexity_keywords[k])]),
        total_lines |-> Len(lines),
        blank_lines |-> NumWhere(lines, LAMBDA l : Strip(l) = <<>>)]

PythonStatistics(text) ==
    LET lines == SplitLines(text)
    IN [type |-> "Python Code",
        imports |-> NumWhere(lines, LAMBDA l :
                        \/ StartsWith(Strip(l), <<"i", "m", "p", "o", "r", "t", " ">>)
                        \/ StartsWith(Strip(l), <<"f", "r", "o", "m", " ">>)),
        functions |-> NumWhere(lines, LAMBDA l : StartsWith(Strip(l), <<"d", "e", "f", " ">>)),
        classes |-> NumWhere(lines, LAMBDA l :
                        StartsWith(Strip(l), <<"c", "l", "a", "s", "s", " ">>)),
        comments |-> NumWhere(lines, LAMBDA l : StartsWith(Strip(l), <<"#">>)),
        docstrings |-> (Count(text, <<"\"", "\"", "\"">>) \div 2)
                        + (Count(text, <<"'", "'", "'">>) \div 2),
        estimated_complexity |->
            SumSeq([k \in 1..Len(complexity_keywords) |-> Count(text, complexity_keywords[k])]),
        total_lines |-> Len(lines),
        blank_lines |-> NumWhere(lines, LAMBDA l : Strip(l) = <<>>)]

analyze_python_body(f, env) ==
    LET o == OpenRead(f, "utf-8", env)
    IN IF Returned(o) THEN [ret |-> PythonStatistics(o.ret), opens |-> 1]
       ELSE [exc |-> o.exc, msg |-> o.msg, opens |-> 1]

analyze_python_file(f, env) ==
    LET b == analyze_python_body(f, env)
    IN IF Returned(b) THEN b
       ELSE [ret |-> [error |-> <<"Error analyzing Python file: ", b.msg>>],
             opens |-> b.opens]

(***************************************************************************)
(* DataAnalyzer.analyze_csv_file.  csv.Sniffer and csv.reader are the      *)
(* library's, on texts without quote characters and carriage returns:      *)
(*   - the reader yields one row per line, no row for the empty end after  *)
(*     the last line feed, [] for an empty line, and otherwise the fields  *)
(*     between the delimiters;                                             *)
(*   - the sniffer answers "," when every non-empty line of its sample has *)
(*     the same number of commas, at least one; for every other sample the *)
(*     file carries the library's answer (another character, or            *)
(*     "csv.Error": could not determine delimiter).                        *)
(* column_analysis is a dict in insertion order: a sequence of             *)
(* [key, value], a key that is set again keeps its place.                  *)
(***************************************************************************)
\* str.split(d) on one line
RECURSIVE SplitOnAcc(_, _, _, _, _)
SplitOnAcc(s, d, i, cur, acc) ==
    IF i > Len(s) THEN Append(acc, cur)
    ELSE IF s[i] = d THEN SplitOnAcc(s, d, i + 1, <<>>, Append(acc, cur))
    ELSE SplitOnAcc(s, d, i + 1, Append(cur, s[i]), acc)

\* the lines a file object yields: the text cut after every line feed
FileLines(text) ==
    LET parts == SplitLines(text)
    IN IF parts[Len(parts)] = <<>> THEN SubSeq(parts, 1, Len(parts) - 1) ELSE parts

\* list(csv.reader(file, delimiter=delimiter))
csv_reader(text, delimiter) ==
    LET lines == FileLines(text)
    IN [r \in 1..Len(lines) |->
            IF lines[r] = <<>> THEN <<>> ELSE SplitOnAcc(lines[r], delimiter, 1, <<>>, <<>>)]

\* file.read(1024)
SampleSize == 1024

Sample(text) == SubSeq(text, 1, IF Len(text) < SampleSize THEN Len(text) ELSE SampleSize)

ConsistentCommas(sample) ==
    LET lines == SelectSeq(SplitLines(sample), LAMBDA l : l # <<>>)
        commas(l) == Len(SelectSeq(l, LAMBDA c : c = ","))
    IN /\ lines # <<>>
       /\ commas(lines[1]) >= 1
       /\ \A r \in 1..Len(lines) : commas(lines[r]) = commas(lines[1])

\* csv.Sniffer().sniff(sample).delimiter, or "csv.Error"
sniff(f, sample) == IF ConsistentCommas(sample) THEN "," ELSE f.csv.sniff

\* a variant that adds an entry for every assignment, also of a key it has
DictSetAppending(d, k, v) == Append(d, [key |-> k, value |-> v])

DictSet(d, k, v) ==
    IF \E j \in 1..Len(d) : d[j].key = k
    THEN [j \in 1..Len(d) |-> IF d[j].key = k THEN [key |-> k, value |-> v] ELSE d[j]]
    ELSE Append(d, [key |-> k, value |-> v])

Min(a, b) == IF a <= b THEN a ELSE b

ColumnData(data_rows, i) ==
    [r \in 1..Len(data_rows) |-> IF i <= Len(data_rows[r]) THEN data_rows[r][i] ELSE <<>>]

\* a variant that counts the distinct values after trimming them
ColumnStatsUniqueTrimmed(column_data) ==
    [non_empty_count |-> Len(SelectSeq(column_data, LAMBDA v : Strip(v) # <<>>)),
     unique_values |-> Cardinality({Strip(column_data[r]) : r \in 1..Len(column_data)}),
     sample_values |-> SubSeq(column_data, 1, Min(3, Len(column_data)))]

ColumnStats(column_data) ==
    [non_empty_count |-> Len(SelectSeq(column_data, LAMBDA v : Strip(v) # <<>>)),
     unique_values |-> Cardinality({column_data[r] : r \in 1..Len(column_data)}),
     sample_values |-> SubSeq(column_data, 1, Min(3, Len(column_data)))]

RECURSIVE ColumnAnalysis(_, _, _, _)
ColumnAnalysis(headers, data_rows, i, acc) ==
    IF i > Len(headers) THEN acc
    ELSE ColumnAnalysis(headers, data_rows, i + 1,
                        DictSet(acc, headers[i], ColumnStats(ColumnData(data_rows, i))))

CsvStatistics(rows, delimiter) ==
    LET headers == rows[1]
        data_rows == IF Len(rows) > 1 THEN Tail(rows) ELSE <<>>
    IN [type |-> "CSV Data",
        total_rows |-> Len(rows),
        data_rows |-> Len(data_rows),
        columns |-> Len(headers),
        headers |-> headers,
        delimiter |-> delimiter,
        column_analysis |->
            IF data_rows # <<>> /\ headers # <<>>
            THEN ColumnAnalysis(headers, data_rows, 1, <<>>) ELSE <<>>]

analyze_csv_body(f, env) ==
    LET o == OpenRead(f, "utf-8", env)
    IN IF ~Returned(o) THEN [exc |-> o.exc, msg |-> o.msg, opens |-> 1]
       ELSE LET delimiter == sniff(f, Sample(o.ret))
                rows == csv_reader(o.ret, delimiter)
            IN IF delimiter = "csv.Error"
               THEN [exc |-> "csv.Error", msg |-> "Could not determine delimiter",
                     opens |-> 1]
               ELSE IF rows = <<>>
               THEN [ret |-> [error |-> <<"CSV file is empty">>], opens |-> 1]
               ELSE [ret |-> CsvStatistics(rows, delimiter), opens |-> 1]

analyze_csv_file(f, env) ==
    LET b == analyze_csv_body(f, env)
    IN IF Returned(b) THEN b
       ELSE [ret |-> [error |-> <<"Error analyzing CSV file: ", b.msg>>],
             opens |-> b.opens]

(***************************************************************************)
(* DataAnalyzer.analyze_json_file.  json.load is the library's: a file     *)
(* carries the value it parses to, or that it does not parse.  A parsed    *)
(* value is [ty |-> "dict", keys, vals], [ty |-> "list", items] or a       *)
(* scalar [ty |-> type(obj).__name__, repr |-> its JSON text].             *)
(***************************************************************************)
TypeNames == <<"int", "str", "float", "bool", "NoneType", "list", "dict">>

\* list(set(names)): the distinct names, in an order that depends on the
\* interpreter's string hashing (env.seed)
ListOfSet(names, env) ==
    LET inorder == SelectSeq(TypeNames, LAMBDA t : t \in names)
    IN IF env.seed = 0 THEN inorder
       ELSE [i \in 1..Len(inorder) |-> inorder[Len(inorder) + 1 - i]]

\* a variant that lists every key of a mapping
analyze_json_structure_every_key(obj, env) ==
    CASE obj.ty = "dict" ->
            [type |-> "object", keys |-> Len(obj.keys), key_names |-> obj.keys,
             max_depth |-> 0]
      [] obj.ty = "list" ->
            [type |-> "array",
             length |-> Len(obj.items),
             item_types |-> ListOfSet({obj.items[i].ty : i \in 1..Min(10, Len(obj.items))}, env),
             max_depth |-> 0]
      [] OTHER -> [type |-> obj.ty, max_depth |-> 0]

\* a variant that takes the types of all the items of an array
analyze_json_structure_all_items(obj, env) ==
    CASE obj.ty = "dict" ->
            [type |-> "object",
             keys |-> Len(obj.keys),
             key_names |-> SubSeq(obj.keys, 1, Min(10, Len(obj.keys))),
             max_depth |-> 0]
      [] obj.ty = "list" ->
            [type |-> "array",
             length |-> Len(obj.items),
             item_types |-> ListOfSet({obj.items[i].ty : i \in 1..Len(obj.items)}, env),
             max_depth |-> 0]
      [] OTHER -> [type |-> obj.ty, max_depth |-> 0]

analyze_json_structure(obj, env) ==
    CASE obj.ty = "dict" ->
            [type |-> "object",
             keys |-> Len(obj.keys),
             key_names |-> SubSeq(obj.keys, 1, Min(10, Len(obj.keys))),
             max_depth |-> 0]
      [] obj.ty = "list" ->
            [type |-> "array",
             length |-> Len(obj.items),
             item_types |-> ListOfSet({obj.items[i].ty : i \in 1..Min(10, Len(obj.items))}, env),
             max_depth |-> 0]
      [] OTHER -> [type |-> obj.ty, max_depth |-> 0]

\* len(json.dumps(obj)): separators ", " and ": ", keys in double quotes
RECURSIVE DumpsLen(_)
DumpsLen(obj) ==
    CASE obj.ty = "dict" ->
            2 + SumSeq([i \in 1..Len(obj.keys) |->
                          Len(obj.keys[i]) + 4 + DumpsLen(obj.vals[i])])
              + 2 * Max(Len(obj.keys) - 1, 0)
      [] obj.ty = "list" ->
            2 + SumSeq([i \in 1..Len(obj.items) |-> DumpsLen(obj.items[i])])
              + 2 * Max(Len(obj.items) - 1, 0)
      [] OTHER -> Len(obj.repr)

analyze_json_body(f, env) ==
    LET o == OpenRead(f, "utf-8", env)
    IN IF ~Returned(o) THEN [exc |-> o.exc, msg |-> o.msg, opens |-> 1]
       ELSE IF ~f.json.ok
            THEN [exc |-> "JSONDecodeError", msg |-> "Expecting value", opens |-> 1]
       ELSE [ret |-> [type |-> "JSON Data",
                      structure |-> analyze_json_structure(f.json.value, env),
                      estimated_size |-> DumpsLen(f.json.value)],
             opens |-> 1]

analyze_json_file(f, env) ==
    LET b == analyze_json_body(f, env)
    IN IF Returned(b) THEN b
       ELSE [ret |-> [error |-> <<"Error analyzing JSON file: ", b.msg>>],
             opens |-> b.opens]

(***************************************************************************)
(* ContentAnalyzer.analyze_content                                         *)
(***************************************************************************)
\* str.lower() on an extension
LowerExt(e) ==
    CASE e = ".PY" -> ".py"
      [] e = ".TXT" -> ".txt"
      [] OTHER -> e

\* str.title() on a type category
Title(t) ==
    CASE t = "text" -> "Text"
      [] t = "image" -> "Image"
      [] t = "document" -> "Document"
      [] t = "archive" -> "Archive"
      [] OTHER -> "Unknown"

\* a variant that sends every text file to the text statistics
analyze_content_text_only(f, file_type, env) ==
    IF file_type = "text" THEN analyze_text_file(f, env)
    ELSE [ret |-> [type |-> "Unknown",
                   message |-> <<"File type not supported for content analysis">>],
          opens |-> 0]

\* a variant that gives every binary category the message of the unknown one
analyze_content_one_message(f, file_type, env) ==
    LET file_extension == LowerExt(f.ext)
    IN IF file_type = "text"
       THEN CASE file_extension = ".py" -> analyze_python_file(f, env)
              [] file_extension = ".csv" -> analyze_csv_file(f, env)
              [] file_extension = ".json" -> analyze_json_file(f, env)
              [] OTHER -> analyze_text_file(f, env)
       ELSE [ret |-> [type |-> Title(file_type),
                      message |-> <<"File type not supported for content analysis">>],
             opens |-> 0]

analyze_content(f, file_type, env) ==
    LET file_extension == LowerExt(f.ext)
    IN IF file_type = "text"
       THEN CASE file_extension = ".py" -> analyze_python_file(f, env)
              [] file_extension = ".csv" -> analyze_csv_file(f, env)
              [] file_extension = ".json" -> analyze_json_file(f, env)
              [] OTHER -> analyze_text_file(f, env)
       ELSE IF file_type \in {"image", "document", "archive"}
       THEN [ret |-> [type |-> Title(file_type),
                      message |-> <<"Binary ", file_type,
                                    " file - content analysis not available">>,
                      suggestion |->
                        "Use specialized tools for detailed analysis of this file type"],
             opens |-> 0]
       ELSE [ret |-> [type |-> "Unknown",
                      message |-> <<"File type not supported for content analysis">>],
             opens |-> 0]

(***************************************************************************)
(* file_utils: FileValidator and FileHelper                                *)
(***************************************************************************)
MAX_FILE_SIZE == 10485760

SUPPORTED_TYPES ==
    [text |-> {".txt", ".py", ".js", ".html", ".css", ".md", ".json", ".xml", ".csv"},
     image |-> {".jpg", ".jpeg", ".png", ".gif", ".bmp", ".svg"},
     document |-> {".pdf", ".doc", ".docx", ".xls", ".xlsx", ".ppt", ".pptx"},
     archive |-> {".zip", ".rar", ".tar", ".gz", ".7z"}]

get_file_type(f) ==
    LET file_extension == LowerExt(f.ext)
    IN CASE file_extension \in SUPPORTED_TYPES.text -> "text"
         [] file_extension \in SUPPORTED_TYPES.image -> "image"
         [] file_extension \in SUPPORTED_TYPES.document -> "document"
         [] file_extension \in SUPPORTED_TYPES.archive -> "archive"
         [] OTHER -> "unknown"

file_exists(f) == f.exists

\* a variant of is_file_size_valid that lets every size through
is_file_size_valid_any(f) == TRUE

is_file_size_valid(f) == f.size <= MAX_FILE_SIZE

\* mimetypes.guess_type(file_path)[0] or 'unknown'
get_mime_type(f) ==
    LET e == LowerExt(f.ext)
    IN CASE e = ".txt" -> "text/plain"
         [] e = ".py" -> "text/x-python"
         [] e = ".csv" -> "text/csv"
         [] e = ".json" -> "application/json"
         [] e = ".png" -> "image/png"
         [] e = ".pdf" -> "application/pdf"
         [] e = ".zip" -> "application/zip"
         [] OTHER -> "unknown"

size_names == <<"B", "KB", "MB", "GB">>

(***************************************************************************)
(* A byte count is carried in two parts, [hi, lo] for hi * 2^20 + lo with  *)
(* 0 <= lo < 2^20: the sizes format_file_size is given go beyond the       *)
(* integers of 32 bits.                                                    *)
(***************************************************************************)
Limb == 1024 * 1024

Wide(n) == [hi |-> n \div Limb, lo |-> n % Limb]

\* c times the count s, for c < 2048
Times(s, c) == [hi |-> c * s.hi + (c * s.lo) \div Limb, lo |-> (c * s.lo) % Limb]

\* the count 1024^k
Kibi(k) == IF k < 2 THEN Wide(1024 ^ k) ELSE [hi |-> 1024 ^ (k - 2), lo |-> 0]

\* s >= t
AtLeast(s, t) == s.hi > t.hi \/ (s.hi = t.hi /\ s.lo >= t.lo)

\* a variant of the loop that divides only a value above 1024
RECURSIVE SizeLoopAbove(_, _)
SizeLoopAbove(size_bytes, i) ==
    IF AtLeast(size_bytes, Kibi(i + 1)) /\ size_bytes # Kibi(i + 1)
       /\ i < Len(size_names) - 1
    THEN SizeLoopAbove(size_bytes, i + 1)
    ELSE i

\* the loop of format_file_size: after i divisions the value is
\* size_bytes / 1024^i; the number of divisions the loop makes
RECURSIVE SizeLoop(_, _)
SizeLoop(size_bytes, i) ==
    IF AtLeast(size_bytes, Kibi(i + 1)) /\ i < Len(size_names) - 1
    THEN SizeLoop(size_bytes, i + 1)
    ELSE i

\* the count s divided by 1024^i, i in 0..3: the whole part q and the rest
\* r of den
DivKibi(s, i) ==
    CASE i = 0 -> [q |-> s.hi * Limb + s.lo, r |-> 0, den |-> 1]
      [] i = 1 -> [q |-> s.hi * 1024 + s.lo \div 1024, r |-> s.lo % 1024, den |-> 1024]
      [] i = 2 -> [q |-> s.hi, r |-> s.lo, den |-> Limb]
      [] i = 3 -> [q |-> s.hi \div 1024, r |-> (s.hi % 1024) * Limb + s.lo,
                   den |-> 1024 * Limb]

\* f"{size_bytes:.2f} {size_names[i]}": the value in hundredths, the tie
\* going to the even hundredth, and the unit
format_file_size(size_bytes) ==
    IF size_bytes = Wide(0) THEN [text |-> "0 B"]
    ELSE LET i == SizeLoop(size_bytes, 0)
             d == DivKibi(Times(size_bytes, 100), i)
         IN [hundredths |-> IF 2 * d.r > d.den \/ (2 * d.r = d.den /\ d.q % 2 = 1)
                            THEN d.q + 1 ELSE d.q,
             unit |-> size_names[i + 1]]

get_file_info(f, env) ==
    IF env.stat_fails
    THEN Raise("FileNotFoundError", "[Errno 2] No such file or directory")
    ELSE Return([name |-> <<f.stem, f.ext>>,
                 path |-> <<"/work/", f.stem, f.ext>>,
                 size |-> f.size,
                 size_formatted |-> format_file_size(Wide(f.size)),
                 extension |-> LowerExt(f.ext),
                 type |-> get_file_type(f),
                 mime_type |-> get_mime_type(f),
                 modified_time |-> f.mtime,
                 created_time |-> f.ctime])

(***************************************************************************)
(* report_generator: ReportGenerator.  A report is the list of its lines,  *)
(* a line the sequence of its fixed texts and formatted values.  A dict    *)
(* access d[k] raises KeyError when d has no key k.                        *)
(***************************************************************************)
HasKey(d, k) == k \in DOMAIN d

\* the truth value of a dict or None
Truthy(d) == d # None /\ DOMAIN d # {}

\* d.get(k) == v
GetIs(d, k, v) == HasKey(d, k) /\ d[k] = v

\* datetime.fromtimestamp(t).strftime('%Y-%m-%d %H:%M:%S'): whole seconds
strftime(t) == [seconds |-> t \div 1000]

\* datetime.now().isoformat()
isoformat(t) == [iso_millis |-> t]

KeyError == Raise("KeyError", "missing key")

add_python_analysis(analysis) ==
    IF ~({"total_lines", "blank_lines", "imports", "functions", "classes", "comments",
          "docstrings", "estimated_complexity"} \subseteq DOMAIN analysis)
    THEN KeyError
    ELSE Return(
        << <<"Language: Python">>,
           <<"Total Lines: ", analysis.total_lines>>,
           <<"Blank Lines: ", analysis.blank_lines>>,
           <<"Code Lines: ", analysis.total_lines - analysis.blank_lines>>,
           <<"Imports: ", analysis.imports>>,
           <<"Functions: ", analysis.functions>>,
           <<"Classes: ", analysis.classes>>,
           <<"Comments: ", analysis.comments>>,
           <<"Docstrings: ", analysis.docstrings>>,
           <<"Estimated Complexity: ", analysis.estimated_complexity>> >>
        \o (IF analysis.total_lines > 0
            THEN << <<"Comment Ratio: ",
                      [tenths |-> Round2(10 * analysis.comments, analysis.total_lines)],
                      "%">> >>
            ELSE <<>>))

add_csv_analysis(analysis) ==
    IF ~({"delimiter", "total_rows", "data_rows", "columns", "headers", "column_analysis"}
            \subseteq DOMAIN analysis)
    THEN KeyError
    ELSE Return(
        << <<"Format: CSV (Delimiter: '", analysis.delimiter, "')">>,
           <<"Total Rows: ", analysis.total_rows>>,
           <<"Data Rows: ", analysis.data_rows>>,
           <<"Columns: ", analysis.columns>> >>
        \o (IF analysis.headers # <<>>
            THEN << <<"Headers: ", SubSeq(analysis.headers, 1, Min(5, Len(analysis.headers)))>> >>
                 \o (IF Len(analysis.headers) > 5
                     THEN << <<"  ... and ", Len(analysis.headers) - 5, " more">> >>
                     ELSE <<>>)
            ELSE <<>>)
        \o (IF analysis.column_analysis # <<>>
            THEN << <<"">>, <<"Column Details:">> >>
                 \o [i \in 1..Min(3, Len(analysis.column_analysis)) |->
                        <<"  ", analysis.column_analysis[i].key, ": ",
                          analysis.column_analysis[i].value.non_empty_count, " filled, ",
                          analysis.column_analysis[i].value.unique_values, " unique values">>]
            ELSE <<>>))

add_json_analysis(analysis) ==
    IF ~({"structure", "estimated_size"} \subseteq DOMAIN analysis) THEN KeyError
    ELSE LET structure == analysis.structure
         IN Return(
            << <<"Format: JSON">>,
               <<"Root Type: ", structure.type>> >>
            \o (CASE structure.type = "object" ->
                        << <<"Keys: ", structure.keys>> >>
                        \o (IF structure.key_names # <<>>
                            THEN << <<"Key Names: ",
                                      SubSeq(structure.key_names, 1,
                                             Min(5, Len(structure.key_names)))>> >>
                            ELSE <<>>)
                  [] structure.type = "array" ->
                        << <<"Array Length: ", structure.length>>,
                           <<"Item Types: ", structure.item_types>> >>
                  [] OTHER -> <<>>)
            \o << <<"Estimated Size: ", analysis.estimated_size, " characters">> >>)

add_text_analysis(analysis) ==
    IF ~({"total_lines", "total_words", "total_characters", "characters_no_spaces",
          "average_words_per_line", "common_words"} \subseteq DOMAIN analysis)
    THEN KeyError
    ELSE Return(
        << <<"Encoding: ",
             IF HasKey(analysis, "encoding_used") THEN analysis.encoding_used ELSE "Unknown">>,
           <<"Lines: ", analysis.total_lines>>,
           <<"Words: ", analysis.total_words>>,
           <<"Characters: ", analysis.total_characters>>,
           <<"Characters (no spaces): ", analysis.characters_no_spaces>>,
           <<"Average words per line: ",
             [hundredths |-> analysis.average_words_per_line]>> >>
        \o (IF analysis.common_words # <<>>
            THEN << <<"">>, <<"Most Common Words:">> >>
                 \o [i \in 1..Len(analysis.common_words) |->
                        <<"  ", analysis.common_words[i].t0, ": ",
                          analysis.common_words[i].t1, " times">>]
            ELSE <<>>))

\* a variant that reads analysis['suggestion'] without asking for the key
add_generic_analysis_indexing(analysis) ==
    IF ~HasKey(analysis, "suggestion") THEN KeyError
    ELSE Return(
        (IF HasKey(analysis, "message") THEN <<analysis.message>> ELSE <<>>)
        \o << <<"Suggestion: ", analysis.suggestion>> >>)

add_generic_analysis(analysis) ==
    Return(
        (IF HasKey(analysis, "message") THEN <<analysis.message>> ELSE <<>>)
        \o (IF HasKey(analysis, "suggestion")
            THEN << <<"Suggestion: ", analysis.suggestion>> >> ELSE <<>>))

\* the headers of the two blocks, without the pictograph each starts with
ContentHeader == <<"CONTENT ANALYSIS">>
ErrorHeader == <<"CONTENT ANALYSIS ERROR">>
Rule30 == <<"------------------------------">>
Rule60 == <<"============================================================">>

\* the content analysis section of generate_summary_report
content_section(content_analysis) ==
    IF Truthy(content_analysis) /\ ~HasKey(content_analysis, "error")
    THEN LET body ==
                CASE GetIs(content_analysis, "type", "Python Code") ->
                        add_python_analysis(content_analysis)
                  [] GetIs(content_analysis, "type", "CSV Data") ->
                        add_csv_analysis(content_analysis)
                  [] GetIs(content_analysis, "type", "JSON Data") ->
                        add_json_analysis(content_analysis)
                  [] HasKey(content_analysis, "total_words") ->
                        add_text_analysis(content_analysis)
                  [] OTHER -> add_generic_analysis(content_analysis)
         IN IF Returned(body) THEN Return(<<ContentHeader, Rule30>> \o body.ret) ELSE body
    ELSE IF Truthy(content_analysis) /\ HasKey(content_analysis, "error")
    THEN Return(<<ErrorHeader, Rule30, <<"Error: ">> \o content_analysis.error>>)
    ELSE Return(<<>>)

generate_summary_report(info, content_analysis, at) ==
    LET section == content_section(content_analysis)
    IN IF ~Returned(section) THEN section
       ELSE Return(
            << Rule60, <<"FILE ANALYSIS REPORT">>, Rule60,
               <<"Generated on: ", strftime(at)>>,
               <<"">>,
               <<"FILE INFORMATION">>,
               Rule30,
               <<"Name: ", info.name>>,
               <<"Path: ", info.path>>,
               <<"Size: ", info.size_formatted, " (", info.size, " bytes)">>,
               <<"Type: ", Title(info.type)>>,
               <<"Extension: ", info.extension>>,
               <<"MIME Type: ", info.mime_type>>,
               <<"Modified: ", strftime(info.modified_time)>>,
               <<"Created: ", strftime(info.created_time)>>,
               <<"">> >>
            \o section.ret
            \o << <<"">>, Rule60 >>)

generate_quick_summary(info, content_analysis) ==
    LET head == <<info.name, " (", info.size_formatted, ") - ">>
    IN IF Truthy(content_analysis) /\ ~HasKey(content_analysis, "error")
          /\ GetIs(content_analysis, "type", "Python Code")
       THEN IF {"functions", "classes"} \subseteq DOMAIN content_analysis
            THEN Return(head \o <<"Python file with ", content_analysis.functions,
                                  " functions, ", content_analysis.classes, " classes">>)
            ELSE KeyError
       ELSE IF Truthy(content_analysis) /\ ~HasKey(content_analysis, "error")
               /\ HasKey(content_analysis, "total_words") /\ content_analysis.total_words # 0
       THEN IF HasKey(content_analysis, "total_lines")
            THEN Return(head \o <<"Text file with ", content_analysis.total_words,
                                  " words, ", content_analysis.total_lines, " lines">>)
            ELSE KeyError
       ELSE IF Truthy(content_analysis) /\ ~HasKey(content_analysis, "error")
               /\ GetIs(content_analysis, "type", "CSV Data")
       THEN IF {"data_rows", "columns"} \subseteq DOMAIN content_analysis
            THEN Return(head \o <<"CSV with ", content_analysis.data_rows,
                                  " rows, ", content_analysis.columns, " columns">>)
            ELSE KeyError
       ELSE Return(head \o <<Title(info.type), " file">>)

(***************************************************************************)
(* json.dumps and json.loads.  The values the json module sees carry       *)
(* their Python type: [py |-> "dict", pairs], [py |-> "list", items],      *)
(* [py |-> "tuple", items], [py |-> "str", v], [py |-> "int", v],          *)
(* [py |-> "float", v].  A JSON document is the tree of its text:          *)
(* [j |-> "object", pairs], [j |-> "array", items], [j |-> "string", v],   *)
(* [j |-> "int", v] (a number without a fraction), [j |-> "real", v].      *)
(***************************************************************************)
RECURSIVE json_dumps(_)
json_dumps(x) ==
    CASE x.py = "dict" ->
            [j |-> "object",
             pairs |-> [i \in 1..Len(x.pairs) |->
                          [key |-> x.pairs[i].key, value |-> json_dumps(x.pairs[i].value)]]]
      [] x.py \in {"list", "tuple"} ->
            [j |-> "array", items |-> [i \in 1..Len(x.items) |-> json_dumps(x.items[i])]]
      [] x.py = "str" -> [j |-> "string", v |-> x.v]
      [] x.py = "int" -> [j |-> "int", v |-> x.v]
      [] x.py = "float" -> [j |-> "real", v |-> x.v]

RECURSIVE json_loads(_)
json_loads(d) ==
    CASE d.j = "object" ->
            [py |-> "dict",
             pairs |-> [i \in 1..Len(d.pairs) |->
                          [key |-> d.pairs[i].key, value |-> json_loads(d.pairs[i].value)]]]
      [] d.j = "array" ->
            [py |-> "list", items |-> [i \in 1..Len(d.items) |-> json_loads(d.items[i])]]
      [] d.j = "string" -> [py |-> "str", v |-> d.v]
      [] d.j = "int" -> [py |-> "int", v |-> d.v]
      [] d.j = "real" -> [py |-> "float", v |-> d.v]

(***************************************************************************)
(* The Python types of the values the program builds, by the key they are  *)
(* stored under, and the insertion order of the keys of its dicts.         *)
(***************************************************************************)
KeyOrder ==
    <<"timestamp", "file_info", "content_analysis",
      "name", "path", "size", "size_formatted", "extension",
      "error", "type", "mime_type", "modified_time", "created_time",
      "message", "suggestion",
      "imports", "functions", "classes", "comments", "docstrings",
      "estimated_complexity",
      "total_rows", "data_rows", "columns", "headers", "delimiter", "column_analysis",
      "structure", "estimated_size", "keys", "key_names", "length", "item_types",
      "max_depth",
      "total_lines", "blank_lines", "total_words", "total_characters",
      "characters_no_spaces", "average_words_per_line", "common_words",
      "encoding_used",
      "non_empty_count", "unique_values", "sample_values">>

IntKeys ==
    {"size", "imports", "functions", "classes", "comments", "docstrings",
     "estimated_complexity", "total_rows", "data_rows", "columns", "estimated_size",
     "keys", "length", "max_depth", "total_lines", "blank_lines", "total_words",
     "total_characters", "characters_no_spaces", "non_empty_count", "unique_values"}

FloatKeys == {"average_words_per_line", "modified_time", "created_time"}

ListOfStrKeys == {"headers", "key_names", "item_types", "sample_values"}

PyStr(v) == [py |-> "str", v |-> v]
PyInt(v) == [py |-> "int", v |-> v]

RECURSIVE PyOf(_, _)
RECURSIVE PyOfDict(_)

\* the dict d, its keys in insertion order
PyOfDict(d) ==
    LET ks == SelectSeq(KeyOrder, LAMBDA k : k \in DOMAIN d)
    IN [py |-> "dict",
        pairs |-> [i \in 1..Len(ks) |-> [key |-> ks[i], value |-> PyOf(ks[i], d[ks[i]])]]]

\* the value v stored under the key k
PyOf(k, v) ==
    CASE k \in IntKeys -> PyInt(v)
      [] k \in FloatKeys -> [py |-> "float", v |-> v]
      [] k \in ListOfStrKeys -> [py |-> "list", items |-> [i \in 1..Len(v) |-> PyStr(v[i])]]
      [] k = "common_words" ->
            \* Counter.most_common gives a list of (word, count) tuples
            [py |-> "list",
             items |-> [i \in 1..Len(v) |->
                          [py |-> "tuple", items |-> <<PyStr(v[i].t0), PyInt(v[i].t1)>>]]]
      [] k = "column_analysis" ->
            [py |-> "dict",
             pairs |-> [i \in 1..Len(v) |->
                          [key |-> v[i].key, value |-> PyOfDict(v[i].value)]]]
      [] k \in {"structure", "file_info", "content_analysis"} -> PyOfDict(v)
      [] OTHER -> PyStr(v)

\* a variant that leaves the file information out of the document
generate_json_report_without_file_info(info, content_analysis, at) ==
    Return(json_dumps(PyOfDict([timestamp |-> isoformat(at),
                                content_analysis |-> content_analysis])))

\* a variant that writes the fields of the result at the top level
generate_json_report_flat(info, content_analysis, at) ==
    Return(json_dumps(PyOfDict([timestamp |-> isoformat(at), file_info |-> info]
                                @@ content_analysis)))

generate_json_report(info, content_analysis, at) ==
    Return(json_dumps(PyOfDict([timestamp |-> isoformat(at),
                                file_info |-> info,
                                content_analysis |-> content_analysis])))

(***************************************************************************)
(* The files of the model.  A file is                                      *)
(*   stem, ext   its name (the extension as written)                       *)
(*   exists      whether it is a readable regular file at validation       *)
(*   size        its size in bytes                                         *)
(*   mtime, ctime  its time stamps                                         *)
(*   bytes       what its bytes do under the codecs (ByteKinds)            *)
(*   text        the text it decodes to                                    *)
(*   csv         what csv.Sniffer makes of it when its lines do not have   *)
(*               the same number of commas                                 *)
(*   json        what json.load makes of it                                *)
(***************************************************************************)
NoCsv == [sniff |-> "csv.Error"]
NoJson == [ok |-> FALSE, value |-> [ty |-> "NoneType", repr |-> <<>>]]

JInt(r) == [ty |-> "int", repr |-> r]

TextSamples ==
    { [text |-> <<>>, size |-> 0],
      [text |-> <<"t", "h", "e", " ", "c", "a", "t", "\n", "t", "h", "e", "\n">>, size |-> 24],
      [text |-> <<"T", "h", "e", " ", "d", "o", "g", ".", "\n", "\n", "\n", "\n", "\n">>, size |-> 1152] }

PythonSamples ==
    { [text |-> <<>>, size |-> 0],
      [text |-> <<"i", "m", "p", "o", "r", "t", " ", "x", "\n", "d", "e", "f", " ", "f", "\n", "#", " ", "c", "\n", "\n", "c", "l", "a", "s", "s", " ", "C", "\n">>, size |-> 47] }

CsvSamples ==
    { [text |-> <<>>, csv |-> NoCsv, size |-> 0],
      [text |-> <<"a", ",", "b", "\n">>, csv |-> NoCsv, size |-> 4],
      [text |-> <<"a", ",", "b", ",", "c", "\n", "1", ",", "2", ",", "3", "\n",
                  "4", ",", "5", ",", "6", "\n">>,
       csv |-> NoCsv, size |-> 18],
      [text |-> <<"a", ",", "a", "\n", "1", ",", " ", "\n", "\n">>, csv |-> NoCsv, size |-> 9],
      [text |-> <<"a", "b", "c", "\n">>, csv |-> [sniff |-> "c"], size |-> 4],
      [text |-> <<"a", ";", "b", "\n", "1", ";", "2", "\n">>, csv |-> [sniff |-> ";"],
       size |-> 8] }

JsonSamples ==
    { [json |-> NoJson, size |-> 2],
      [json |-> [ok |-> TRUE, value |-> JInt(<<"3">>)], size |-> 1],
      [json |-> [ok |-> TRUE,
                 value |-> [ty |-> "dict", keys |-> <<<<"x">>, <<"y">>>>,
                            vals |-> <<JInt(<<"1">>),
                                       [ty |-> "list",
                                        items |-> <<JInt(<<"1">>), JInt(<<"2">>)>>]>>]],
       size |-> 19],
      [json |-> [ok |-> TRUE,
                 value |-> [ty |-> "list",
                            items |-> <<JInt(<<"1">>), [ty |-> "str", repr |-> <<"\"", "a", "\"">>],
                                        JInt(<<"2">>)>>]],
       size |-> 11],
      [json |-> [ok |-> TRUE, value |-> [ty |-> "list", items |-> <<>>]], size |-> 2] }

BaseFile(ext) ==
    [stem |-> "data", ext |-> ext, exists |-> TRUE, size |-> 74,
     mtime |-> 61500, ctime |-> 1999,
     bytes |-> "ascii", text |-> <<>>, csv |-> NoCsv, json |-> NoJson]

With(f, sample, bytes) ==
    [k \in DOMAIN f |->
        IF k \in DOMAIN sample THEN sample[k] ELSE IF k = "bytes" THEN bytes ELSE f[k]]

PlainTextFiles ==
    {f \in {With(BaseFile(e), t, b) :
                e \in {".txt", ".TXT", ".md"}, t \in TextSamples, b \in ByteKinds} :
        f.size = 0 => f.bytes = "ascii"}

PythonFiles ==
    {f \in {With(BaseFile(e), t, b) :
                e \in {".py", ".PY"}, t \in PythonSamples, b \in ByteKinds} :
        f.size = 0 => f.bytes = "ascii"}

CsvFiles ==
    {f \in {With(BaseFile(".csv"), c, b) :
                c \in CsvSamples, b \in {"ascii", "not_utf16", "no_bom"}} :
        f.size = 0 => f.bytes = "ascii"}

JsonFiles ==
    {With(BaseFile(".json"), v, b) : v \in JsonSamples, b \in {"ascii", "utf16_bom"}}

BinaryFiles == {BaseFile(e) : e \in {".png", ".pdf", ".zip", ".xyz", ""}}

SpecialFiles ==
    { [BaseFile(".txt") EXCEPT !.stem = "missing", !.exists = FALSE],
      [BaseFile(".txt") EXCEPT !.stem = "large", !.size = MAX_FILE_SIZE + 1],
      [BaseFile(".png") EXCEPT !.stem = "limit", !.size = MAX_FILE_SIZE] }

Files ==
    PlainTextFiles \cup PythonFiles \cup CsvFiles \cup JsonFiles \cup BinaryFiles
        \cup SpecialFiles

\* what the surroundings do during one analysis: whether os.stat and open
\* still find the file, and the interpreter's string hashing
Envs == [stat_fails : BOOLEAN, open_fails : BOOLEAN, seed : {0, 1}]

NoEnv == [stat_fails |-> FALSE, open_fails |-> FALSE, seed |-> 0]

(***************************************************************************)
(* cli: FileAnalyzerCLI and main                                           *)
(***************************************************************************)
Formats == {"detailed", "quick", "json"}

\* format_map.get(choice, 'detailed')
format_map_get(choice) ==
    CASE choice = "1" -> "detailed"
      [] choice = "2" -> "quick"
      [] choice = "3" -> "json"
      [] choice = "" -> "detailed"
      [] OTHER -> "detailed"

\* the renderer display_results calls for a format
DisplayRender(output_format, fi, ca, t) ==
    CASE output_format = "quick" -> generate_quick_summary(fi, ca)
      [] output_format = "json" -> generate_json_report(fi, ca, t)
      [] OTHER -> generate_summary_report(fi, ca, t)

\* the name and the renderer save_report_option uses for a format
SaveName(output_format, fi) ==
    IF output_format = "json" THEN <<fi.name[1], "_analysis.json">>
    ELSE <<fi.name[1], "_analysis.txt">>

SaveRender(output_format, fi, ca, t) ==
    IF output_format = "json" THEN generate_json_report(fi, ca, t)
    ELSE generate_summary_report(fi, ca, t)

Init ==
    /\ content = <<>> /\ nchunks = 0 /\ nwords = 0
    /\ result = None
    /\ file_info = None
    /\ displayed = None
    /\ saved = None
    /\ retval = None
    /\ raised = None
    /\ uncaught = None
    /\ last_env = NoEnv
    /\ analyses = 0 /\ renders = 0 /\ opens = 0
    /\ now = 0
    /\ \/ /\ mode = "interactive"
          /\ pc = "get_path"
          /\ file = BaseFile("")
          /\ fmt = "detailed"
          /\ save_report = FALSE
       \/ /\ mode = "single"
          /\ pc = "single_start"
          /\ file \in Files
          /\ fmt \in Formats
          /\ save_report \in BOOLEAN

\* the clock moves on
Tick ==
    /\ now < MaxTime
    /\ pc # "exit"
    /\ now' = now + 1
    /\ UNCHANGED <<pc, result, textvars, mode, file, fmt, save_report, file_info,
                   displayed, saved, retval, analyses, renders, opens, raised,
                   last_env, uncaught>>

\* a request starts: the locals of the loop body hold nothing that is read
\* before it is assigned again
StartRequest(f) ==
    /\ file' = f
    /\ result' = None
    /\ file_info' = None
    /\ displayed' = None
    /\ saved' = None
    /\ raised' = None
    /\ last_env' = NoEnv
    /\ analyses' = 0 /\ renders' = 0 /\ opens' = 0

\* get_file_path: one pass of its loop, with the line the user enters
GetFilePath ==
    /\ pc = "get_path"
    /\ mode = "interactive"
    /\ \/ \* quit, exit or q
          /\ pc' = "exit"
          /\ UNCHANGED <<result, file, file_info, displayed, saved, raised, last_env,
                         analyses, renders, opens>>
       \/ \* an empty line, a file that is not found, a file that is too large
          /\ \/ TRUE
             \/ \E f \in Files : ~file_exists(f) \/ ~is_file_size_valid(f)
          /\ UNCHANGED <<pc, result, file, file_info, displayed, saved, raised, last_env,
                         analyses, renders, opens>>
       \/ \E f \in Files :
            /\ file_exists(f)
            /\ is_file_size_valid(f)
            /\ StartRequest(f)
            /\ pc' = "get_format"
    /\ UNCHANGED <<textvars, mode, fmt, save_report, now, retval, uncaught>>

GetOutputFormat ==
    /\ pc = "get_format"
    /\ \E choice \in {"1", "2", "3", "", "9"} : fmt' = format_map_get(choice)
    /\ pc' = "analyze"
    /\ UNCHANGED <<result, textvars, mode, file, save_report, file_info, displayed,
                   saved, now, retval, analyses, renders, opens, raised, last_env, uncaught>>

\* run_single_file_mode up to its call of analyze_file
SingleValidate ==
    /\ pc = "single_start"
    /\ IF ~file_exists(file) \/ ~is_file_size_valid(file)
       THEN pc' = "exit" /\ retval' = [value |-> FALSE]
       ELSE pc' = "analyze" /\ UNCHANGED retval
    /\ UNCHANGED <<result, textvars, mode, file, fmt, save_report, file_info, displayed,
                   saved, now, analyses, renders, opens, raised, last_env, uncaught>>

\* analyze_file; in the single file mode, the check of file_info after it
AnalyzeFile ==
    /\ pc = "analyze"
    /\ \E e \in Envs :
        LET info == get_file_info(file, e)
            a == analyze_content(file, info.ret.type, e)
        IN /\ last_env' = e
           /\ IF ~Returned(info)
              THEN /\ file_info' = None /\ result' = None
                   /\ UNCHANGED <<analyses, opens, raised>>
              ELSE /\ analyses' = analyses + 1
                   /\ opens' = a.opens
                   /\ IF Returned(a)
                      THEN file_info' = info.ret /\ result' = a.ret /\ UNCHANGED raised
                      ELSE /\ file_info' = None /\ result' = None
                           /\ raised' = [exc |-> a.exc]
    /\ IF mode = "single" /\ file_info' = None
       THEN pc' = "exit" /\ retval' = [value |-> FALSE]
       ELSE pc' = "display" /\ UNCHANGED retval
    /\ UNCHANGED <<textvars, mode, file, fmt, save_report, displayed, saved, now, renders,
                   uncaught>>

\* display_results, and what the caller does next
DisplayResults ==
    /\ pc = "display"
    /\ IF file_info = None \/ ~Truthy(result)
       THEN /\ UNCHANGED <<displayed, renders, uncaught>>
            /\ IF mode = "interactive" THEN pc' = "continue" /\ UNCHANGED retval
               ELSE IF save_report THEN pc' = "save" /\ UNCHANGED retval
               ELSE pc' = "exit" /\ retval' = [value |-> TRUE]
       ELSE LET o == DisplayRender(fmt, file_info, result, now)
            IN /\ renders' = renders + 1
               /\ IF ~Returned(o)
                  THEN /\ pc' = "crashed"
                       /\ uncaught' = [exc |-> o.exc, from |-> "display_results"]
                       /\ UNCHANGED <<displayed, retval>>
                  ELSE /\ displayed' = [format |-> fmt, report |-> o.ret]
                       /\ UNCHANGED uncaught
                       /\ IF mode = "interactive" \/ save_report
                          THEN pc' = "save" /\ UNCHANGED retval
                          ELSE pc' = "exit" /\ retval' = [value |-> TRUE]
    /\ UNCHANGED <<result, textvars, mode, file, fmt, save_report, file_info, saved,
                   now, analyses, opens, raised, last_env>>

\* a variant of save_report_option that notes the report's name in the
\* analysis it was handed
SaveReportOptionAnnotating ==
    /\ pc = "save"
    /\ \/ /\ UNCHANGED <<saved, renders, uncaught, result>>
          /\ IF mode = "interactive" THEN pc' = "continue" /\ UNCHANGED retval
             ELSE pc' = "exit" /\ retval' = [value |-> TRUE]
       \/ \E stat_fails \in BOOLEAN, write_fails \in BOOLEAN :
            IF stat_fails
            THEN /\ pc' = "crashed"
                 /\ uncaught' = [exc |-> "FileNotFoundError", from |-> "get_file_info"]
                 /\ UNCHANGED <<saved, renders, retval, result>>
            ELSE LET o == SaveRender(fmt, file_info, result, now)
                 IN /\ renders' = renders + 1
                    /\ result' = [k \in DOMAIN result \cup {"saved_to"} |->
                                    IF k = "saved_to" THEN SaveName(fmt, file_info)
                                    ELSE result[k]]
                    /\ IF ~Returned(o)
                       THEN /\ pc' = "crashed"
                            /\ uncaught' = [exc |-> o.exc, from |-> "save_report_option"]
                            /\ UNCHANGED <<saved, retval>>
                       ELSE /\ UNCHANGED uncaught
                            /\ saved' = IF write_fails THEN None
                                        ELSE [name |-> SaveName(fmt, file_info),
                                              report |-> o.ret]
                            /\ IF mode = "interactive"
                               THEN pc' = "continue" /\ UNCHANGED retval
                               ELSE pc' = "exit" /\ retval' = [value |-> TRUE]
    /\ UNCHANGED <<textvars, mode, file, fmt, save_report, file_info, displayed,
                   now, analyses, opens, raised, last_env>>

\* save_report_option, with the answer of the user, and what the caller
\* does next
SaveReportOption ==
    /\ pc = "save"
    /\ \/ \* any answer but y or yes
          /\ UNCHANGED <<saved, renders, uncaught>>
          /\ IF mode = "interactive" THEN pc' = "continue" /\ UNCHANGED retval
             ELSE pc' = "exit" /\ retval' = [value |-> TRUE]
       \/ \* y or yes
          \E stat_fails \in BOOLEAN, write_fails \in BOOLEAN :
            IF stat_fails
            THEN \* get_file_info raises, nothing here handles it
                 /\ pc' = "crashed"
                 /\ uncaught' = [exc |-> "FileNotFoundError", from |-> "get_file_info"]
                 /\ UNCHANGED <<saved, renders, retval>>
            ELSE LET o == SaveRender(fmt, file_info, result, now)
                 IN /\ renders' = renders + 1
                    /\ IF ~Returned(o)
                       THEN /\ pc' = "crashed"
                            /\ uncaught' = [exc |-> o.exc, from |-> "save_report_option"]
                            /\ UNCHANGED <<saved, retval>>
                       ELSE /\ UNCHANGED uncaught
                            /\ saved' = IF write_fails THEN None
                                        ELSE [name |-> SaveName(fmt, file_info),
                                              report |-> o.ret]
                            /\ IF mode = "interactive"
                               THEN pc' = "continue" /\ UNCHANGED retval
                               ELSE pc' = "exit" /\ retval' = [value |-> TRUE]
    /\ UNCHANGED <<result, textvars, mode, file, fmt, save_report, file_info, displayed,
                   now, analyses, opens, raised, last_env>>

\* the question whether to analyze another file
ContinueChoice ==
    /\ pc = "continue"
    /\ \/ pc' = "get_path"
       \/ pc' = "exit"
    /\ UNCHANGED <<result, textvars, clivars>>

Next ==
    \/ Tick
    \/ GetFilePath
    \/ GetOutputFormat
    \/ SingleValidate
    \/ AnalyzeFile
    \/ DisplayResults
    \/ SaveReportOption
    \/ ContinueChoice

Spec == Init /\ [][Next]_vars

(***************************************************************************)
(* The texts of the text specification: built piece by piece from a small  *)
(* vocabulary.  A new vocabulary word may be used only after the ones      *)
(* before it, which loses no text up to renaming of the words.             *)
(***************************************************************************)
Words == << <<"t", "h", "e">>, <<"c", "a", "t">>, <<"d", "o", "g">>,
            <<"e", "e", "l">>, <<"f", "o", "x">>, <<"g", "n", "u">> >>

Pieces == << <<"\n">>,                       \* an empty line
             <<"T", "h", "E", "\t">>,        \* the first word in upper case, a tab
             <<"t", "h", "e", "1", " ">>,    \* the first word, a digit after it
             <<"a", "t", "-">> >>            \* a short word and a hyphen

InitText ==
    /\ pc = "edit"
    /\ content = <<>>
    /\ nchunks = 0
    /\ nwords = 0
    /\ result = None
    /\ mode = "text"
    /\ file = BaseFile(".txt")
    /\ fmt = "detailed"
    /\ save_report = FALSE
    /\ file_info = None
    /\ displayed = None
    /\ saved = None
    /\ now = 0
    /\ retval = None
    /\ analyses = 0 /\ renders = 0 /\ opens = 0
    /\ raised = None
    /\ uncaught = None
    /\ last_env = NoEnv

AppendWord ==
    /\ pc = "edit"
    /\ nchunks < MaxChunks
    /\ \E w \in 1..Len(Words) :
        /\ w <= nwords + 1
        /\ content' = content \o Words[w] \o <<" ">>
        /\ nwords' = Max(nwords, w)
    /\ nchunks' = nchunks + 1
    /\ UNCHANGED <<pc, result, clivars>>

AppendPiece ==
    /\ pc = "edit"
    /\ nchunks < MaxChunks
    /\ \E p \in 1..Len(Pieces) : content' = content \o Pieces[p]
    /\ nchunks' = nchunks + 1
    /\ UNCHANGED <<pc, nwords, result, clivars>>

AnalyzeText ==
    /\ pc = "edit"
    /\ result' = TextStatistics(content, "utf-8")
    /\ pc' = "text_done"
    /\ UNCHANGED <<textvars, clivars>>

NextText == AppendWord \/ AppendPiece \/ AnalyzeText

SpecText == InitText /\ [][NextText]_vars

(***************************************************************************)
(* Properties of the text statistics.                                      *)
(***************************************************************************)
Abs(x) == IF x < 0 THEN 0 - x ELSE x

\* the end of the maximal run of letters of s that starts at i
RunEnd(s, i) ==
    CHOOSE j \in i..Len(s) :
        /\ \A k \in i..j : IsLetter(s[k])
        /\ j = Len(s) \/ ~IsLetter(s[j + 1])

\* where the maximal runs of three or more letters of s start: the matches
\* of [A-Za-z]{3,} alone
LetterTokens(s) ==
    {i \in 1..Len(s) :
        /\ IsLetter(s[i])
        /\ i = 1 \/ ~IsLetter(s[i - 1])
        /\ RunEnd(s, i) >= i + 2}

\* those of them that no word character (digit, underscore) touches on
\* either side
BoundedTokens(s) ==
    {i \in LetterTokens(s) :
        /\ i = 1 \/ ~IsWordChar(s[i - 1])
        /\ RunEnd(s, i) = Len(s) \/ ~IsWordChar(s[RunEnd(s, i) + 1])}

\* cw is at most TopN long, by descending count, equal counts by first
\* occurrence, each count the number of occurrences among the tokens of s
\* that start at toks
CommonWordsAgree(cw, s, toks) ==
    LET word == [i \in toks |-> SubSeq(s, i, RunEnd(s, i))]
        occ == [n \in 1..Len(cw) |-> {i \in toks : word[i] = cw[n].t0}]
        first == [n \in 1..Len(cw) |->
                    CHOOSE i \in occ[n] : \A k \in occ[n] : k >= i]
    IN /\ Len(cw) <= TopN
       /\ \A n \in 1..Len(cw) : occ[n] # {} /\ cw[n].t1 = Cardinality(occ[n])
       /\ \A n \in 1..Len(cw) : \A m \in (n + 1)..Len(cw) :
            \/ cw[n].t1 > cw[m].t1
            \/ cw[n].t1 = cw[m].t1 /\ first[n] < first[m]

\* C8 as stated: common_words has at most 5 entries, is sorted by descending
\* count with ties in first-occurrence order, and each count is the number of
\* occurrences in the lower-cased text of that token, the tokens being the
\* matches of [A-Za-z]{3,}.
C8_CommonWordsOfLetterRuns ==
    pc = "text_done" =>
        CommonWordsAgree(result.common_words, Lower(content), LetterTokens(Lower(content)))

\* C8 amended: the same, the tokens being the runs of three or more letters
\* that are delimited by word boundaries: a run next to a digit or an
\* underscore is no token and is not counted.
C8_CommonWordsOfBoundedTokens ==
    pc = "text_done" =>
        CommonWordsAgree(result.common_words, Lower(content), BoundedTokens(Lower(content)))

\* six distinct words were written and five of them are reported
C8_Witness ==
    /\ pc = "text_done"
    /\ nwords = 6
    /\ Len(result.common_words) = TopN

\* C9 as stated: average_words_per_line * total_lines is within 0.01 of
\* total_words whenever total_lines > 0 (in hundredths: within 1 of 100 * words).
C9_AverageWithinOneHundredth ==
    (pc = "text_done" /\ result.total_lines > 0) =>
        Abs(result.average_words_per_line * result.total_lines - 100 * result.total_words) <= 1

\* C9 amended: average_words_per_line is within 0.005 of total_words /
\* total_lines, so that average_words_per_line * total_lines is within
\* 0.005 * total_lines of total_words.
C9_AverageWithinHalfHundredthPerLine ==
    (pc = "text_done" /\ result.total_lines > 0) =>
        2 * Abs(result.average_words_per_line * result.total_lines - 100 * result.total_words)
            <= result.total_lines

\* one word on six lines: the average 0.17 times 6 is 1.02
C9_Witness ==
    /\ pc = "text_done"
    /\ result.total_lines = 6
    /\ result.total_words = 1
    /\ result.average_words_per_line = 17

(***************************************************************************)
(* Properties of the analysis and the reports, checked under Spec          *)
(***************************************************************************)
\* the request has been analysed and analyze_content gave a result
Analysed == analyses = 1 /\ result # None /\ file_info # None

\* the extension analyze_content dispatches on
Dispatch == LowerExt(file.ext)

IsError(r) == HasKey(r, "error")

\* the failures inside the sub-analyzer of a text file: the file cannot be
\* opened, its bytes do not decode, it does not parse
FailureInside ==
    \/ last_env.open_fails
    \/ Dispatch \in {".py", ".csv", ".json"} /\ Decode(file.bytes, "utf-8") # "ok"
    \/ Dispatch = ".csv" /\ sniff(file, Sample(file.text)) = "csv.Error"
    \/ Dispatch = ".json" /\ ~file.json.ok
    \/ Dispatch \notin {".py", ".csv", ".json"} /\ file.bytes = "no_bom"

\* C1: analyze_content never raises: once the metadata is read it returns a
\* result for every file and every category, and a failure inside a
\* sub-analyzer comes back as a result with a non-empty 'error' message.
C1_AnalyzeContentTotal ==
    /\ raised = None
    /\ analyses = 1 =>
        /\ Truthy(result)
        /\ (file_info.type = "text" /\ FailureInside) =>
                IsError(result) /\ result.error # <<>> /\ result.error[1] # ""

\* C1: an analysis whose file could not be opened gave an error result
C1_Witness ==
    Analysed /\ file_info.type = "text" /\ last_env.open_fails /\ IsError(result)

\* the results each sub-analyzer can give
FromPython(r) ==
    IF IsError(r) THEN r.error[1] = "Error analyzing Python file: "
    ELSE GetIs(r, "type", "Python Code")

FromCsv(r) ==
    IF IsError(r) THEN r.error[1] \in {"Error analyzing CSV file: ", "CSV file is empty"}
    ELSE GetIs(r, "type", "CSV Data")

FromJson(r) ==
    IF IsError(r) THEN r.error[1] = "Error analyzing JSON file: "
    ELSE GetIs(r, "type", "JSON Data")

FromText(r) ==
    IF IsError(r)
    THEN r.error[1] \in {"Error analyzing text file: ",
                         "Could not decode file with supported encodings"}
    ELSE HasKey(r, "total_words") /\ HasKey(r, "encoding_used") /\ ~HasKey(r, "type")

\* C2: for a file of the text category the result is the one of the
\* sub-analyzer its lower-cased extension selects (.py code, .csv tabular,
\* .json structured data, anything else text statistics), or that
\* analyzer's error result; the three analyzers of a format open the file
\* once.
C2_VariantMatchesDispatch ==
    (Analysed /\ file_info.type = "text") =>
        /\ opens >= 1
        /\ CASE Dispatch = ".py" -> FromPython(result) /\ opens = 1
             [] Dispatch = ".csv" -> FromCsv(result) /\ opens = 1
             [] Dispatch = ".json" -> FromJson(result) /\ opens = 1
             [] OTHER -> FromText(result)

\* C2: a file named .PY went to the code structure analyzer
C2_Witness ==
    Analysed /\ file.ext = ".PY" /\ GetIs(result, "type", "Python Code")

\* C3 as claimed: for every category other than text, analyze_content opens
\* no file and its result carries the category and the message that binary
\* content analysis is not available.
C3_EveryNonTextBinaryMessage ==
    (Analysed /\ file_info.type # "text") =>
        /\ opens = 0
        /\ GetIs(result, "type", Title(file_info.type))
        /\ GetIs(result, "message",
                 <<"Binary ", file_info.type, " file - content analysis not available">>)

\* C3 as amended: for every category other than text, analyze_content opens
\* no file and gives a result without 'error' that carries the category;
\* for image, document and archive its message is that binary content
\* analysis is not available and it carries a suggestion, for the unknown
\* category its message is that the file type is not supported and it
\* carries no suggestion.
C3_NonTextUnsupported ==
    (Analysed /\ file_info.type # "text") =>
        /\ opens = 0
        /\ ~IsError(result)
        /\ GetIs(result, "type", Title(file_info.type))
        /\ IF file_info.type \in {"image", "document", "archive"}
           THEN /\ GetIs(result, "message",
                         <<"Binary ", file_info.type,
                           " file - content analysis not available">>)
                /\ HasKey(result, "suggestion")
           ELSE /\ file_info.type = "unknown"
                /\ GetIs(result, "message",
                         <<"File type not supported for content analysis">>)
                /\ ~HasKey(result, "suggestion")

\* C3: a file of the unknown category was analysed without being opened
C3_Witness ==
    /\ Analysed /\ opens = 0
    /\ file_info.type = "unknown" /\ HasKey(result, "message")
    /\ ~HasKey(result, "suggestion")

\* the lines of a detailed report
HasLine(report, line) == \E i \in 1..Len(report) : report[i] = line

\* a result that is neither an error nor an analysis: message and category
IsUnsupported(r) == ~IsError(r) /\ HasKey(r, "message")

\* the reports of the request: the one shown and the one written
Reports ==
    (IF displayed # None THEN {displayed} ELSE {})
        \cup (IF saved # None
              THEN {[format |-> IF fmt = "json" THEN "json" ELSE "detailed",
                     report |-> saved.report]}
              ELSE {})

\* no renderer raised
RenderersReturned == uncaught # None => uncaught.from = "get_file_info"

\* the value of a key of a loaded JSON object, None without the key
Field(doc, k) ==
    LET hits == SelectSeq(doc.pairs, LAMBDA p : p.key = k)
    IN IF hits = <<>> THEN None ELSE hits[1].value

WellFormed(r) ==
    CASE r.format = "detailed" ->
            /\ Len(r.report) >= 18
            /\ r.report[1] = Rule60 /\ r.report[Len(r.report)] = Rule60
            /\ HasLine(r.report, <<"FILE INFORMATION">>)
            /\ HasLine(r.report, <<"Name: ", file_info.name>>)
            /\ HasLine(r.report, ContentHeader) # HasLine(r.report, ErrorHeader)
      [] r.format = "quick" ->
            /\ Len(r.report) >= 5
            /\ r.report[1] = file_info.name
      [] r.format = "json" ->
            /\ r.report.j = "object"
            /\ [i \in 1..Len(r.report.pairs) |-> r.report.pairs[i].key]
                  = <<"timestamp", "file_info", "content_analysis">>

\* C4 as claimed: the renderers return a well-formed report for every
\* result without raising, and the detailed report of an error result and
\* of an unsupported result shows the error block, not the content block.
C4_ErrorBlockForErrorAndUnsupported ==
    /\ RenderersReturned
    /\ \A r \in Reports :
        /\ WellFormed(r)
        /\ (r.format = "detailed" /\ (IsError(result) \/ IsUnsupported(result))) =>
                HasLine(r.report, ErrorHeader) /\ ~HasLine(r.report, ContentHeader)

\* C4 as amended: the renderers return a well-formed report for every
\* result without raising; the detailed report shows the error block with
\* the message only for an error result, and for an unsupported result it
\* shows the normal content block with the result's message.
C4_ErrorBlockOnlyForError ==
    /\ RenderersReturned
    /\ \A r \in Reports :
        /\ WellFormed(r)
        /\ r.format = "detailed" =>
            IF IsError(result)
            THEN /\ HasLine(r.report, ErrorHeader) /\ ~HasLine(r.report, ContentHeader)
                 /\ HasLine(r.report, <<"Error: ">> \o result.error)
            ELSE /\ HasLine(r.report, ContentHeader) /\ ~HasLine(r.report, ErrorHeader)
                 /\ IsUnsupported(result) => HasLine(r.report, result.message)

\* C4: the detailed report of an unsupported result was shown, and it has
\* the content block
C4_Witness ==
    /\ displayed # None /\ displayed.format = "detailed"
    /\ IsUnsupported(result)
    /\ HasLine(displayed.report, ContentHeader)

\* json.loads gives a list for every array: the value a tuple comes back as
RECURSIVE TuplesAsLists(_)
TuplesAsLists(x) ==
    CASE x.py = "dict" ->
            [py |-> "dict",
             pairs |-> [i \in 1..Len(x.pairs) |->
                          [key |-> x.pairs[i].key, value |-> TuplesAsLists(x.pairs[i].value)]]]
      [] x.py \in {"list", "tuple"} ->
            [py |-> "list", items |-> [i \in 1..Len(x.items) |-> TuplesAsLists(x.items[i])]]
      [] OTHER -> x

JsonReports == {r \in Reports : r.format = "json"}

\* C6 as claimed: loading the JSON report gives back the values of the
\* metadata and the values of the result.
C6_RoundTripReproducesValues ==
    \A r \in JsonReports :
        LET doc == json_loads(r.report)
        IN /\ Field(doc, "file_info") = PyOfDict(file_info)
           /\ Field(doc, "content_analysis") = PyOfDict(result)

\* C6 as amended: loading the JSON report gives back the values of the
\* metadata and the values of the result, except that every (word, count)
\* pair of common_words comes back as the two-element list [word, count].
C6_RoundTripUpToTuples ==
    \A r \in JsonReports :
        LET doc == json_loads(r.report)
        IN /\ Field(doc, "file_info") = PyOfDict(file_info)
           /\ Field(doc, "content_analysis") = TuplesAsLists(PyOfDict(result))
           /\ ~HasKey(result, "common_words") =>
                Field(doc, "content_analysis") = PyOfDict(result)

\* C6: the JSON report of text statistics with common words was shown
C6_Witness ==
    /\ displayed # None /\ displayed.format = "json"
    /\ HasKey(result, "common_words") /\ result.common_words # <<>>

\* the request is over
RequestOver == pc \in {"continue", "exit"}

\* C7 as claimed: a request that gave a result ran the analyzers once and
\* rendered the result once, and the result is not changed once it exists.
C7_OneAnalysisOneRender ==
    /\ [](result # None => analyses = 1)
    /\ []((RequestOver /\ displayed # None) => renders = 1)
    /\ [][(result # None /\ pc # "get_path") => result' = result]_vars

\* C7 as amended: a request that gave a result ran the analyzers once (the
\* next request starts without a result and analyses again); the result
\* is rendered once by display_results and a second time if the user has
\* the report saved; the result is not changed once it exists.
C7_OneAnalysisRenderPerUse ==
    /\ [](result # None => analyses = 1)
    /\ [](pc = "get_format" => (result = None /\ analyses = 0 /\ renders = 0))
    /\ []((RequestOver /\ displayed # None) => renders \in {1, 2})
    /\ [](saved # None => renders = 2)
    /\ [](renders <= 2 /\ (renders = 2 => pc \notin {"display", "save"}))
    /\ [][(result # None /\ pc # "get_path") => result' = result]_vars

\* C7: the result of a request was shown and saved
C7_Witness == RequestOver /\ saved # None /\ displayed # None /\ analyses = 1

\* the first encoding of the list that decodes the bytes
FirstDecoding(bytes) ==
    LET ok == {i \in 1..Len(encodings) : Decode(bytes, encodings[i]) = "ok"}
    IN IF ok = {} THEN None
       ELSE [encoding |-> encodings[CHOOSE i \in ok : \A j \in ok : i <= j]]

\* C10: for a text file that can be opened, the text statistics record as
\* encoding_used the first of utf-8, utf-16, ascii, latin-1 that decodes
\* the file, and the result is an error only if none of the four does.
C10_FirstDecodingEncodingUsed ==
    (Analysed /\ file_info.type = "text" /\ Dispatch \notin {".py", ".csv", ".json"}
        /\ ~last_env.open_fails) =>
        LET first == FirstDecoding(file.bytes)
        IN IF first = None THEN IsError(result)
           ELSE ~IsError(result) /\ result.encoding_used = first.encoding

(***************************************************************************)
(* The tabular analyzer on a file that is typed character by character.    *)
(* content is the text together with the rows as they are typed: a comma   *)
(* ends a field, a line feed ends a row, a line without a character is a   *)
(* row without fields.  The analysis is taken for the texts the sniffer    *)
(* answers with a comma; the files of Spec cover its other answers.        *)
(***************************************************************************)
CsvAlphabet == {"a", " ", ",", "\n"}

Typed(st, c) ==
    CASE c = "\n" -> [text |-> Append(st.text, c), rows |-> Append(st.rows, st.cur),
                      cur |-> <<>>]
      [] c = "," -> [text |-> Append(st.text, c), rows |-> st.rows,
                     cur |-> IF st.cur = <<>> THEN << <<>>, <<>> >>
                             ELSE Append(st.cur, <<>>)]
      [] OTHER -> [text |-> Append(st.text, c), rows |-> st.rows,
                   cur |-> IF st.cur = <<>> THEN << <<c>> >>
                           ELSE [st.cur EXCEPT ![Len(st.cur)] = Append(@, c)]]

RECURSIVE TypedAll(_, _, _)
TypedAll(st, text, i) ==
    IF i > Len(text) THEN st ELSE TypedAll(Typed(st, text[i]), text, i + 1)

NothingTyped == [text |-> <<>>, rows |-> <<>>, cur |-> <<>>]

\* the file of the specification's example
ExampleCsv ==
    <<"a", ",", "b", ",", "c", "\n", "1", ",", "2", ",", "3", "\n",
      "4", ",", "5", ",", "6", "\n">>

\* the command line is not in use
CliIdle ==
    /\ fmt = "detailed"
    /\ save_report = FALSE
    /\ file_info = None
    /\ displayed = None
    /\ saved = None
    /\ now = 0
    /\ retval = None
    /\ analyses = 0 /\ renders = 0 /\ opens = 0
    /\ raised = None
    /\ uncaught = None
    /\ last_env = NoEnv

InitCsv ==
    /\ pc = "csv_edit"
    /\ \/ content = NothingTyped /\ nchunks = 0
       \/ content = TypedAll(NothingTyped, ExampleCsv, 1) /\ nchunks = MaxChars
    /\ nwords = 0
    /\ result = None
    /\ mode = "csv"
    /\ file = BaseFile(".csv")
    /\ CliIdle

TypeChar ==
    /\ pc = "csv_edit"
    /\ nchunks < MaxChars
    /\ \E c \in CsvAlphabet : content' = Typed(content, c)
    /\ nchunks' = nchunks + 1
    /\ UNCHANGED <<pc, nwords, result, clivars>>

AnalyzeCsv ==
    /\ pc = "csv_edit"
    /\ ConsistentCommas(Sample(content.text))
    /\ result' = analyze_csv_file([file EXCEPT !.text = content.text], NoEnv).ret
    /\ pc' = "csv_done"
    /\ UNCHANGED <<textvars, clivars>>

NextCsv == TypeChar \/ AnalyzeCsv

SpecCsv == InitCsv /\ [][NextCsv]_vars

(***************************************************************************)
(* Properties of the tabular statistics, checked under SpecCsv             *)
(***************************************************************************)
\* the rows of the typed file, the open line included
TypedRows ==
    content.rows \o (IF content.cur # <<>> THEN <<content.cur>> ELSE <<>>)

TypedHeaders == TypedRows[1]

TypedData == Tail(TypedRows)

\* field i of a data row, the empty string where the row has no field i
FieldOf(row, i) == IF i <= Len(row) THEN row[i] ELSE <<>>

NonBlank(v) == \E k \in 1..Len(v) : ~IsSpace(v[k])

\* the value of a key of a dict in insertion order
Entry(d, k) == d[CHOOSE j \in 1..Len(d) : d[j].key = k].value

HasEntry(d, k) == \E j \in 1..Len(d) : d[j].key = k

\* the statistics the claim gives column i
ColumnAsClaimed(i) ==
    LET n == Len(TypedData)
    IN [non_empty_count |-> Cardinality({r \in 1..n : NonBlank(FieldOf(TypedData[r], i))}),
        unique_values |-> Cardinality({FieldOf(TypedData[r], i) : r \in 1..n}),
        sample_values |-> [r \in 1..(IF n < 3 THEN n ELSE 3) |-> FieldOf(TypedData[r], i)]]

TabularBasics ==
    /\ ~IsError(result)
    /\ result.type = "CSV Data"
    /\ result.delimiter = ","
    /\ result.headers = TypedHeaders
    /\ result.total_rows = Len(TypedRows)
    /\ result.data_rows = result.total_rows - 1
    /\ result.columns = Len(TypedHeaders)

ExampleAsClaimed ==
    content.text = ExampleCsv =>
        /\ result.delimiter = ","
        /\ result.headers = << <<"a">>, <<"b">>, <<"c">> >>
        /\ result.data_rows = 2
        /\ Entry(result.column_analysis, <<"a">>)
             = [non_empty_count |-> 2, unique_values |-> 2,
                sample_values |-> << <<"1">>, <<"4">> >>]

HeaderAndData == pc = "csv_done" /\ Len(TypedRows) >= 2 /\ TypedHeaders # <<>>

\* C11 as claimed: with a header row and a data row, the first row is the
\* headers, data_rows = total_rows - 1, and per_column of the header of
\* every column i has the non-blank count, the distinct raw values and the
\* first three raw values of field i, short rows giving the empty string.
C11_EveryColumnItsStatistics ==
    HeaderAndData =>
        /\ TabularBasics
        /\ ExampleAsClaimed
        /\ \A i \in 1..Len(TypedHeaders) :
             /\ HasEntry(result.column_analysis, TypedHeaders[i])
             /\ Entry(result.column_analysis, TypedHeaders[i]) = ColumnAsClaimed(i)

\* C11 as amended: the same, for every column whose header name does not
\* come again further right; per_column of a repeated name has the
\* statistics of the last column with that name.
C11_LastColumnOfEachName ==
    HeaderAndData =>
        /\ TabularBasics
        /\ ExampleAsClaimed
        /\ \A i \in 1..Len(TypedHeaders) :
             (\A j \in (i + 1)..Len(TypedHeaders) : TypedHeaders[j] # TypedHeaders[i]) =>
                /\ HasEntry(result.column_analysis, TypedHeaders[i])
                /\ Entry(result.column_analysis, TypedHeaders[i]) = ColumnAsClaimed(i)

\* C11: a file was analysed whose data rows include a row without fields
\* and a blank value
C11_Witness ==
    /\ HeaderAndData
    /\ \E r \in 1..Len(TypedData) : TypedData[r] = <<>>
    /\ \E r \in 1..Len(TypedData) : FieldOf(TypedData[r], 1) = <<" ">>
    /\ Len(result.column_analysis) >= 1

\* the keys of a dict in insertion order
KeysOf(d) == [j \in 1..Len(d) |-> d[j].key]

\* the names of a header row without those that came before
RECURSIVE FirstOccurrences(_, _, _)
FirstOccurrences(headers, i, acc) ==
    IF i > Len(headers) THEN acc
    ELSE FirstOccurrences(headers, i + 1,
            IF \E j \in 1..(i - 1) : headers[j] = headers[i] THEN acc
            ELSE Append(acc, headers[i]))

\* C12 as claimed: in every tabular result the keys of per_column are the
\* headers, in the same order.
C12_KeysEqualHeaders ==
    (pc = "csv_done" /\ ~IsError(result)) =>
        KeysOf(result.column_analysis) = result.headers

\* C12 as amended: in every tabular result with at least one data row the
\* keys of per_column are the headers in order, each name once at the place
\* of its first occurrence; without a data row per_column is empty.
C12_KeysAreDistinctHeaders ==
    (pc = "csv_done" /\ ~IsError(result)) =>
        /\ result.headers = TypedHeaders
        /\ KeysOf(result.column_analysis)
             = IF result.data_rows = 0 THEN <<>>
               ELSE FirstOccurrences(result.headers, 1, <<>>)

\* C12: a file with a repeated header name and a data row was analysed
C12_Witness ==
    /\ pc = "csv_done" /\ ~IsError(result)
    /\ result.data_rows >= 1
    /\ Len(result.column_analysis) < Len(result.headers)

(***************************************************************************)
(* Properties of the tabular analyzer on the files of Spec                 *)
(***************************************************************************)
\* a .csv file was read and decoded
CsvRead ==
    /\ Analysed /\ file_info.type = "text" /\ Dispatch = ".csv"
    /\ ~last_env.open_fails /\ Decode(file.bytes, "utf-8") = "ok"

\* C13: a .csv file that parses to zero rows, such as an empty file, gives
\* the error result with the message "CSV file is empty".
C13_ZeroRowsCsvFileIsEmpty ==
    (CsvRead /\ csv_reader(file.text, ",") = <<>>) =>
        result = [error |-> <<"CSV file is empty">>]

CandidateDelimiters == {",", ";", "\t", "|"}

\* C14: the delimiter of every tabular result is a comma, a semicolon, a
\* tab or a pipe, inferred from the first 1024 characters, and the rows
\* are those of the whole file parsed with it.
C14_DelimiterAmongCandidates ==
    (CsvRead /\ ~IsError(result)) =>
        /\ result.delimiter \in CandidateDelimiters
        /\ result.delimiter = sniff(file, Sample(file.text))
        /\ result.total_rows = Len(csv_reader(file.text, result.delimiter))

(***************************************************************************)
(* The structured-data analyzer on a document whose root is a mapping      *)
(* that grows key by key.  content is the value json.load gives: the keys  *)
(* in the order of the document, and their values.                         *)
(***************************************************************************)
KeyNames ==
    << <<"x">>, <<"y">>, <<"k", "3">>, <<"k", "4">>, <<"k", "5">>, <<"k", "6">>,
       <<"k", "7">>, <<"k", "8">>, <<"k", "9">>, <<"k", "1", "0">>, <<"k", "1", "1">>,
       <<"k", "1", "2">>, <<"k", "1", "3">> >>

\* the values of the first keys: a number, an array, a mapping with a
\* mapping inside
ValueKinds ==
    { JInt(<<"1">>),
      [ty |-> "list", items |-> <<JInt(<<"1">>), JInt(<<"2">>), JInt(<<"3">>)>>],
      [ty |-> "dict", keys |-> << <<"x">> >>,
       vals |-> << [ty |-> "dict", keys |-> << <<"z">> >>, vals |-> <<JInt(<<"1">>)>>] >>] }

VariedKeys == 3

InitJson ==
    /\ pc = "json_edit"
    /\ content = [ty |-> "dict", keys |-> <<>>, vals |-> <<>>]
    /\ nchunks = 0
    /\ nwords = 0
    /\ result = None
    /\ mode = "json"
    /\ file = BaseFile(".json")
    /\ CliIdle

AddKey ==
    /\ pc = "json_edit"
    /\ nchunks < MaxKeys
    /\ \E v \in (IF nchunks < VariedKeys THEN ValueKinds ELSE {JInt(<<"1">>)}) :
        content' = [content EXCEPT !.keys = Append(@, KeyNames[nchunks + 1]),
                                   !.vals = Append(@, v)]
    /\ nchunks' = nchunks + 1
    /\ UNCHANGED <<pc, nwords, result, clivars>>

AnalyzeJson ==
    /\ pc = "json_edit"
    /\ \E e \in {en \in Envs : ~en.open_fails /\ ~en.stat_fails} :
        result' = analyze_json_file(
                    [file EXCEPT !.json = [ok |-> TRUE, value |-> content]], e).ret
    /\ pc' = "json_done"
    /\ UNCHANGED <<textvars, clivars>>

NextJson == AddKey \/ AnalyzeJson

SpecJson == InitJson /\ [][NextJson]_vars

SourceLines ==
    { [line |-> <<"d", "e", "f", " ", "f">>, kind |-> "def"],
      [line |-> <<"\t", " ", "d", "e", "f", " ", "f">>, kind |-> "def"],
      [line |-> <<"c", "l", "a", "s", "s", " ", "C", " ">>, kind |-> "class"],
      [line |-> <<"i", "m", "p", "o", "r", "t", " ", "x">>, kind |-> "import"],
      [line |-> <<" ", "f", "r", "o", "m", " ", "x">>, kind |-> "import"],
      [line |-> <<"#", " ", "d", "e", "f", " ", "f">>, kind |-> "comment"],
      [line |-> <<>>, kind |-> "other"],
      [line |-> <<"d", "e", "f", " ">>, kind |-> "other"],
      [line |-> <<"c", "l", "a", "s", "s", "y">>, kind |-> "other"],
      [line |-> <<"x", " ", "#">>, kind |-> "other"] }

CountedKinds == {"def", "class", "import", "comment"}

InitPy ==
    /\ pc = "py_edit"
    /\ content = [text |-> <<>>, lines |-> 1, counts |-> [k \in CountedKinds |-> 0]]
    /\ nchunks = 0
    /\ nwords = 0
    /\ result = None
    /\ mode = "python"
    /\ file = BaseFile(".py")
    /\ CliIdle

\* one more line: the first one fills the empty text, the others follow a
\* line feed
WriteLine ==
    /\ pc = "py_edit"
    /\ nchunks < MaxLines
    /\ \E l \in SourceLines :
        content' =
            [text |-> IF nchunks = 0 THEN l.line ELSE content.text \o <<"\n">> \o l.line,
             lines |-> IF nchunks = 0 THEN 1 ELSE content.lines + 1,
             counts |-> [k \in CountedKinds |->
                           content.counts[k] + (IF l.kind = k THEN 1 ELSE 0)]]
    /\ nchunks' = nchunks + 1
    /\ UNCHANGED <<pc, nwords, result, clivars>>

AnalyzePython ==
    /\ pc = "py_edit"
    /\ result' = analyze_python_file([file EXCEPT !.text = content.text], NoEnv).ret
    /\ pc' = "py_done"
    /\ UNCHANGED <<textvars, clivars>>

NextPy == WriteLine \/ AnalyzePython

SpecPy == InitPy /\ [][NextPy]_vars

\* C16: functions, classes, imports and comments are the numbers of lines
\* whose trimmed form starts with "def ", with "class ", with "import " or
\* "from ", and with "#"; no line is counted twice.
C16_CountersPerTrimmedLine ==
    pc = "py_done" =>
        /\ ~IsError(result)
        /\ result.functions = content.counts["def"]
        /\ result.classes = content.counts["class"]
        /\ result.imports = content.counts["import"]
        /\ result.comments = content.counts["comment"]
        /\ result.total_lines = content.lines
        /\ result.functions + result.classes + result.imports + result.comments
             <= result.total_lines

\* C16: a source with three def lines, one of them indented, and a class
\* line was analysed
C16_Witness ==
    /\ pc = "py_done"
    /\ content.counts["def"] = 3 /\ content.counts["class"] = 1
    /\ result.functions = 3 /\ result.classes = 1
    /\ \E i \in 1..Len(content.text) : content.text[i] = "\t"

(***************************************************************************)
(* Properties of the quick summary and the JSON report, checked under Spec *)
(***************************************************************************)
\* the clause of the quick summary the claim gives each result
ClauseAsClaimed(r) ==
    CASE ~IsError(r) /\ GetIs(r, "type", "Python Code") ->
            <<"Python file with ", r.functions, " functions, ", r.classes, " classes">>
      [] ~IsError(r) /\ HasKey(r, "total_words") ->
            <<"Text file with ", r.total_words, " words, ", r.total_lines, " lines">>
      [] ~IsError(r) /\ GetIs(r, "type", "CSV Data") ->
            <<"CSV with ", r.data_rows, " rows, ", r.columns, " columns">>
      [] OTHER -> <<Title(file_info.type), " file">>

\* C17: the quick summary is "<name> (<human size>) - <clause>" with the
\* clause of the result's variant: functions and classes for code, words
\* and lines for every text result (also one with zero words), rows and
\* columns for tabular data, "<Category> file" for every other result.
C17_QuickSummaryClausePerVariant ==
    (displayed # None /\ displayed.format = "quick") =>
        displayed.report
            = <<file_info.name, " (", file_info.size_formatted, ") - ">>
                \o ClauseAsClaimed(result)

\* the fields of each variant of the result, in the order its analyzer
\* writes them
FieldsAsClaimed(r) ==
    CASE IsError(r) -> <<"error">>
      [] GetIs(r, "type", "Python Code") ->
            <<"type", "imports", "functions", "classes", "comments", "docstrings",
              "estimated_complexity", "total_lines", "blank_lines">>
      [] GetIs(r, "type", "CSV Data") ->
            <<"type", "total_rows", "data_rows", "columns", "headers", "delimiter",
              "column_analysis">>
      [] GetIs(r, "type", "JSON Data") -> <<"type", "structure", "estimated_size">>
      [] HasKey(r, "total_words") ->
            <<"total_lines", "total_words", "total_characters", "characters_no_spaces",
              "average_words_per_line", "common_words", "encoding_used">>
      [] HasKey(r, "suggestion") -> <<"type", "message", "suggestion">>
      [] OTHER -> <<"type", "message">>

\* the keys of a JSON object, in the order of the document
ObjectKeys(obj) == [i \in 1..Len(obj.pairs) |-> obj.pairs[i].key]

\* C18: the JSON report has exactly the three top-level fields timestamp,
\* file_info and content_analysis, in this order, and content_analysis has
\* every field of the variant of the result with its value: no field is
\* omitted, added or reordered.
C18_ThreeFieldsAndFullResult ==
    \A r \in JsonReports :
        LET ca == Field(r.report, "content_analysis")
            fields == FieldsAsClaimed(result)
        IN /\ r.report.j = "object"
           /\ ObjectKeys(r.report) = <<"timestamp", "file_info", "content_analysis">>
           /\ ca.j = "object"
           /\ ObjectKeys(ca) = fields
           /\ DOMAIN result = {fields[i] : i \in 1..Len(fields)}
           /\ \A i \in 1..Len(fields) :
                 ca.pairs[i].value = json_dumps(PyOf(fields[i], result[fields[i]]))

\* C18: the JSON report of a tabular result with column statistics was shown
C18_Witness ==
    /\ displayed # None /\ displayed.format = "json"
    /\ GetIs(result, "type", "CSV Data") /\ result.column_analysis # <<>>
    /\ Len(Field(displayed.report, "content_analysis").pairs) = 7

(***************************************************************************)
(* FileHelper.format_file_size applied to byte counts around the powers of *)
(* 1024: the counts are the first few, and the eighths of 1024, 1024^2,    *)
(* 1024^3 and 1024^4 with a few bytes less or more.                        *)
(***************************************************************************)
MaxSmall == 3

MaxEighths == 17

MaxOffset == 1

\* 1024^k / 8, k in 1..4
Eighth(k) ==
    CASE k = 1 -> [hi |-> 0, lo |-> 128]
      [] k = 2 -> [hi |-> 0, lo |-> Limb \div 8]
      [] k = 3 -> [hi |-> 128, lo |-> 0]
      [] k = 4 -> [hi |-> Limb \div 8, lo |-> 0]

\* the count s and d bytes, d negative or not
Shift(s, d) == [hi |-> s.hi + (s.lo + d) \div Limb, lo |-> (s.lo + d) % Limb]

Sizes ==
    {Wide(n) : n \in 0..MaxSmall}
        \cup {Shift(Times(Eighth(k), e), d) :
                 k \in 1..4, e \in 1..MaxEighths, d \in (0 - MaxOffset)..MaxOffset}

InitSize ==
    /\ pc = "size_given"
    /\ content \in Sizes
    /\ nchunks = 0
    /\ nwords = 0
    /\ result = None
    /\ mode = "size"
    /\ file = BaseFile(".txt")
    /\ CliIdle

FormatFileSize ==
    /\ pc = "size_given"
    /\ result' = format_file_size(content)
    /\ pc' = "size_done"
    /\ UNCHANGED <<textvars, clivars>>

NextSize == FormatFileSize

SpecSize == InitSize /\ [][NextSize]_vars

(***************************************************************************)
(* Properties of format_file_size, checked under SpecSize.                 *)
(***************************************************************************)
\* the count s is below 1024^k, k in 1..4
BelowKibi(s, k) ==
    CASE k = 1 -> s.hi = 0 /\ s.lo < 1024
      [] k = 2 -> s.hi = 0
      [] k = 3 -> s.hi < 1024
      [] k = 4 -> s.hi < 1024 * 1024

\* the smallest unit in which the count is below 1024, the last one when
\* there is none
UnitAsClaimed(s) ==
    LET ks == {k \in 0..3 : BelowKibi(s, k + 1)}
    IN IF ks = {} THEN 3 ELSE CHOOSE k \in ks : \A j \in ks : k <= j

\* the sum of two counts
Plus(s, t) == [hi |-> s.hi + t.hi + (s.lo + t.lo) \div Limb, lo |-> (s.lo + t.lo) % Limb]

\* h hundredths of 1024^k, twice
TwiceHundredths(h, k) ==
    CASE k = 0 -> Wide(2 * h)
      [] k = 1 -> Wide(2 * h * 1024)
      [] k = 2 -> [hi |-> 2 * h, lo |-> 0]
      [] k = 3 -> [hi |-> 2 * h * 1024, lo |-> 0]

\* h is a hundredth nearest to s / 1024^k: |100 s - h 1024^k| <= 1024^k / 2
NearestHundredth(h, s, k) ==
    /\ AtLeast(Plus(TwiceHundredths(h, k), Kibi(k)), Times(s, 200))
    /\ AtLeast(Plus(Times(s, 200), Kibi(k)), TwiceHundredths(h, k))

\* C19: zero bytes give "0 B"; any other byte count is given in the
\* smallest of the units B, KB, MB, GB in which it is below 1024, in GB
\* when there is none, as the count divided by 1024 once per unit step and
\* rounded to two decimals.
C19_UnitAndTwoDecimals ==
    pc = "size_done" =>
        IF content.hi = 0 /\ content.lo = 0
        THEN result = [text |-> "0 B"]
        ELSE LET k == UnitAsClaimed(content)
             IN /\ DOMAIN result = {"hundredths", "unit"}
                /\ result.unit = <<"B", "KB", "MB", "GB">>[k + 1]
                /\ NearestHundredth(result.hundredths, content, k)

\* C19: a count of 1024^4 bytes or more was given in GB, as 1024.00 or more
C19_Witness ==
    /\ pc = "size_done"
    /\ content.hi >= 1024 * 1024
    /\ result.unit = "GB" /\ result.hundredths >= 102400

(***************************************************************************)
(* Several calls of ContentAnalyzer.analyze_content running at once, each  *)
(* on a file of its own, their statements interleaved.  The analyzers are  *)
(* static methods without module or class variables: what a call keeps is  *)
(* in the frame of the call - the parameters file_path and file_type, the  *)
(* loop variable encoding (its index i), the handle file and content.      *)
(* Here pc, file and result are functions of the task and content holds    *)
(* the frames.                                                             *)
(***************************************************************************)
NTasks == 2

Tasks == 1..NTasks

\* a variant in which every call works in the same frame
FrameShared(t) == 1

\* the frame of the call of task t
Frame(t) == t

NoFrame == [file_path |-> None, file_type |-> None, i |-> 0, handles |-> <<>>,
            content |-> None]

TaskFiles ==
    {f \in Files :
        /\ f.stem = "data"
        /\ \/ f.ext = ".txt" /\ f.size = 24 /\ f.bytes # "utf8"
           \/ f.ext = ".py" /\ f.size = 47 /\ f.bytes \in {"ascii", "not_utf16"}
           \/ f.ext = ".csv" /\ f.size \in {0, 18} /\ f.bytes = "ascii"
           \/ f.ext = ".json" /\ (f.size = 19 \/ f.json = NoJson) /\ f.bytes = "ascii"
           \/ f.ext \in {".png", ".xyz"}}

InitTasks ==
    /\ pc = [t \in Tasks |-> "call"]
    /\ file \in {fs \in [Tasks -> TaskFiles] : \A t, u \in Tasks : fs[t] = fs[u] => t = u}
    /\ content = [k \in Tasks |-> NoFrame]
    /\ nchunks = 0
    /\ nwords = 0
    /\ result = [t \in Tasks |-> None]
    /\ mode = "tasks"
    /\ CliIdle

\* open(file_path, 'r', encoding=...): one more handle of the call
Acquire(fr) == [fr EXCEPT !.handles = Append(fr.handles, fr.file_path)]

\* a variant of the with statement that closes the file only when its block
\* ends without an exception
ReleaseUnlessRaised(fr, o) ==
    IF Returned(o) THEN [fr EXCEPT !.handles = SubSeq(fr.handles, 1, Len(fr.handles) - 1)]
    ELSE fr

\* the end of a with block left with the outcome o: the file is closed,
\* whether the block returned or raised
Release(fr, o) == [fr EXCEPT !.handles = SubSeq(fr.handles, 1, Len(fr.handles) - 1)]

\* the file of the with block
Handle(fr) == fr.handles[Len(fr.handles)]

TaskStep(t, label, frame) ==
    /\ pc' = [pc EXCEPT ![t] = label]
    /\ content' = [content EXCEPT ![Frame(t)] = frame]
    /\ UNCHANGED <<result, nchunks, nwords, clivars>>

TaskReturn(t, value, frame) ==
    /\ pc' = [pc EXCEPT ![t] = "done"]
    /\ result' = [result EXCEPT ![t] = value]
    /\ content' = [content EXCEPT ![Frame(t)] = frame]
    /\ UNCHANGED <<nchunks, nwords, clivars>>

\* the call binds the parameters
Call(t) ==
    /\ pc[t] = "call"
    /\ TaskStep(t, "dispatch",
                [NoFrame EXCEPT !.file_path = file[t], !.file_type = get_file_type(file[t])])

\* analyze_content: the route of the file
Route(t) ==
    LET fr == content[Frame(t)]
    IN /\ pc[t] = "dispatch"
       /\ IF fr.file_type # "text"
          THEN TaskReturn(t, analyze_content(fr.file_path, fr.file_type, NoEnv).ret, fr)
          ELSE IF LowerExt(fr.file_path.ext) \in {".py", ".csv", ".json"}
          THEN TaskStep(t, "run", fr)
          ELSE TaskStep(t, "open", [fr EXCEPT !.i = 1, !.content = None])

\* the analyzers of .py, .csv and .json files: open(file_path, 'r',
\* encoding='utf-8')
Run(t) ==
    LET fr == content[Frame(t)]
    IN /\ pc[t] = "run"
       /\ TaskStep(t, "parse", Acquire(fr))

\* the analyzers of .py, .csv and .json files: the with block, in which
\* the file is read, sniffed or parsed, and the statements after it
Parse(t) ==
    LET fr == content[Frame(t)]
        f == Handle(fr)
        ext == LowerExt(f.ext)
        inside == CASE ext = ".py" -> OpenRead(f, "utf-8", NoEnv)
                    [] ext = ".csv" ->
                          LET o == OpenRead(f, "utf-8", NoEnv)
                          IN IF Returned(o) /\ sniff(f, Sample(o.ret)) = "csv.Error"
                             THEN Raise("Error", "Could not determine delimiter")
                             ELSE o
                    [] OTHER ->
                          LET o == OpenRead(f, "utf-8", NoEnv)
                          IN IF Returned(o) /\ ~f.json.ok
                             THEN Raise("JSONDecodeError", "Expecting value")
                             ELSE o
    IN /\ pc[t] = "parse"
       /\ TaskReturn(t, analyze_content(f, fr.file_type, NoEnv).ret, Release(fr, inside))

\* analyze_text_file: open(file_path, 'r', encoding=encoding)
Open(t) ==
    LET fr == content[Frame(t)]
    IN /\ pc[t] = "open"
       /\ TaskStep(t, "read", Acquire(fr))

\* analyze_text_file: content = file.read() and the end of the with block;
\* a UnicodeDecodeError goes on to the next encoding, another exception to
\* the handler of the function
Read(t) ==
    LET fr == content[Frame(t)]
        o == OpenRead(Handle(fr), encodings[fr.i], NoEnv)
        closed == Release(fr, o)
    IN /\ pc[t] = "read"
       /\ IF Returned(o)
          THEN TaskStep(t, "stats", [closed EXCEPT !.content = [str |-> o.ret]])
          ELSE IF o.exc = "UnicodeDecodeError"
          THEN TaskStep(t, IF fr.i < Len(encodings) THEN "open" ELSE "stats",
                        [closed EXCEPT !.i = IF fr.i < Len(encodings) THEN fr.i + 1 ELSE fr.i])
          ELSE TaskReturn(t, [error |-> <<"Error analyzing text file: ", o.msg>>], closed)

\* analyze_text_file: the statistics of content
Stats(t) ==
    LET fr == content[Frame(t)]
    IN /\ pc[t] = "stats"
       /\ TaskReturn(t, IF fr.content = None
                        THEN [error |-> <<"Could not decode file with supported encodings">>]
                        ELSE TextStatistics(fr.content.str, encodings[fr.i]),
                     fr)

NextTasks ==
    \E t \in Tasks :
        Call(t) \/ Route(t) \/ Run(t) \/ Parse(t) \/ Open(t) \/ Read(t) \/ Stats(t)

SpecTasks == InitTasks /\ [][NextTasks]_vars

(***************************************************************************)
(* Properties of analyses running at once, checked under SpecTasks.        *)
(***************************************************************************)
\* the result of the analysis of file f run alone
Alone(f) == analyze_content(f, get_file_type(f), NoEnv).ret

\* C20: analyses of files of their own share no state: however the
\* statements of the calls interleave, each call returns the result it
\* returns when run alone.
C20_ResultAsWhenAlone ==
    \A t \in Tasks : pc[t] = "done" => result[t] = Alone(file[t])

\* C20: a text analysis that had its file open while another call opened
\* and read its own file has returned its statistics
C20_Witness ==
    \E t, u \in Tasks :
        /\ t # u
        /\ pc[t] = "done" /\ HasKey(result[t], "total_words")
        /\ result[t].encoding_used = "latin-1"
        /\ pc[u] = "read" /\ content[Frame(u)].i = 2
        /\ content[Frame(u)].handles = <<file[u]>>

\* the handles the call of task t holds
Held(t) == content[Frame(t)].handles

\* C21: every handle an analyzer opens is released on every way out of the
\* call: a call holds a handle only inside a with block, one at a time, an
\* encoding that failed has its handle released before the next is tried,
\* and a call that has returned - with a result or with the error of a
\* decode, sniffing or parse failure - holds none.
C21_HandlesReleased ==
    \A t \in Tasks :
        /\ Len(Held(t)) <= 1
        /\ Held(t) # <<>> => pc[t] \in {"read", "parse"}
        /\ pc[t] = "done" => Held(t) = <<>>

\* C21: a call that failed to sniff the delimiter and a call that got to
\* latin-1 after three encodings failed have returned
C21_Witness ==
    \E t, u \in Tasks :
        /\ pc[t] = "done" /\ IsError(result[t])
        /\ result[t].error = <<"Error analyzing CSV file: ", "Could not determine delimiter">>
        /\ pc[u] = "done" /\ HasKey(result[u], "encoding_used")
        /\ result[u].encoding_used = "latin-1"
        /\ Held(t) = <<>> /\ Held(u) = <<>>

(***************************************************************************)
(* Properties of the saved report and of the statistics, checked under     *)
(* Spec and SpecText.                                                      *)
(***************************************************************************)
\* the report is the quick summary of the metadata and the result
IsQuickSummary(report) ==
    /\ report[1] = file_info.name
    /\ report = generate_quick_summary(file_info, result).ret

\* the report is the detailed report of the metadata and the result
IsDetailedReport(report) ==
    /\ report[1] # file_info.name
    /\ \E t \in 0..MaxTime : report = generate_summary_report(file_info, result, t).ret

\* C22: a saved report has the name and the content of the chosen format:
\* "<stem>_analysis.json" with the JSON document for json, else
\* "<stem>_analysis.txt" with the report in the format chosen and shown,
\* the quick summary when the quick summary was chosen.
C22_SavedInChosenFormat ==
    saved # None =>
        CASE fmt = "json" ->
                /\ saved.name = <<file.stem, "_analysis.json">>
                /\ \E t \in 0..MaxTime :
                      saved.report = generate_json_report(file_info, result, t).ret
          [] fmt = "quick" ->
                /\ saved.name = <<file.stem, "_analysis.txt">>
                /\ IsQuickSummary(saved.report)
          [] OTHER ->
                /\ saved.name = <<file.stem, "_analysis.txt">>
                /\ IsDetailedReport(saved.report)

\* the number of positions of the text at which P holds
CountPositions(text, P(_)) == Cardinality({i \in 1..Len(text) : P(i)})

\* C23: for decoded text, total_lines is one more than the number of line
\* feeds (the segments between them, the empty one after a final line feed
\* included, so at least 1), total_words is the number of maximal runs of
\* characters that are not white space, total_characters is the length,
\* and characters_no_spaces is the number of characters that are neither
\* space, tab nor line feed, hence at most total_characters.
C23_LinesWordsCharacters ==
    pc = "text_done" =>
        LET White(i) == content[i] \in {" ", "\t", "\n"}
            LineFeed(i) == content[i] = "\n"
            WordStart(i) == ~White(i) /\ (i = 1 \/ White(i - 1))
            Black(i) == ~White(i)
        IN /\ result.total_lines = 1 + CountPositions(content, LineFeed)
           /\ result.total_lines >= 1
           /\ result.total_words = CountPositions(content, WordStart)
           /\ result.total_characters = Len(content)
           /\ result.characters_no_spaces = CountPositions(content, Black)
           /\ result.characters_no_spaces <= result.total_characters

\* C23: a text that ends in a line feed and has a tab was analysed
C23_Witness ==
    /\ pc = "text_done"
    /\ Len(content) > 0 /\ content[Len(content)] = "\n"
    /\ \E i \in 1..Len(content) : content[i] = "\t"
    /\ result.total_lines = 3
    /\ result.total_words = 2
    /\ result.characters_no_spaces < result.total_characters

(***************************************************************************)
(* CodeAnalyzer.analyze_python_file on a source written fragment by        *)
(* fragment: the keywords of the complexity estimate, words that are no    *)
(* keyword, a line feed, and the quotes of the docstring count.            *)
(***************************************************************************)
MaxFragments == 3

Fragments ==
    { <<"i", "f", " ">>, <<"e", "l", "i", "f", " ">>, <<"e", "l", "s", "e", ":">>,
      <<"f", "o", "r", " ">>, <<"w", "h", "i", "l", "e", " ">>, <<"t", "r", "y", ":">>,
      <<"e", "x", "c", "e", "p", "t", ":">>, <<"w", "i", "t", "h", " ">>,
      <<"I", "F", " ">>, <<"m", "o", "t", "i", "f", " ">>, <<"\n">>,
      <<"\"", "\"", "\"">>, <<"'", "'", "'">>, <<"\"">>, <<"'">> }

InitSrc ==
    /\ pc = "src_edit"
    /\ content = <<>>
    /\ nchunks = 0
    /\ nwords = 0
    /\ result = None
    /\ mode = "source"
    /\ file = BaseFile(".py")
    /\ CliIdle

WriteFragment ==
    /\ pc = "src_edit"
    /\ nchunks < MaxFragments
    /\ \E fragment \in Fragments : content' = content \o fragment
    /\ nchunks' = nchunks + 1
    /\ UNCHANGED <<pc, nwords, result, clivars>>

AnalyzeSource ==
    /\ pc = "src_edit"
    /\ result' = analyze_python_file([file EXCEPT !.text = content], NoEnv).ret
    /\ pc' = "src_done"
    /\ UNCHANGED <<textvars, clivars>>

NextSrc == WriteFragment \/ AnalyzeSource

SpecSrc == InitSrc /\ [][NextSrc]_vars

(***************************************************************************)
(* Properties of the complexity estimate and the docstring count, checked  *)
(* under SpecSrc.                                                          *)
(***************************************************************************)
\* the number of places of the text at which sub stands, places that
\* overlap included
Occurrences(text, sub) ==
    Cardinality({i \in 1..Len(text) :
                    /\ i + Len(sub) - 1 <= Len(text)
                    /\ SubSeq(text, i, i + Len(sub) - 1) = sub})

KeywordsAsClaimed ==
    { <<"i", "f", " ">>, <<"e", "l", "i", "f", " ">>, <<"e", "l", "s", "e", ":">>,
      <<"f", "o", "r", " ">>, <<"w", "h", "i", "l", "e", " ">>, <<"t", "r", "y", ":">>,
      <<"e", "x", "c", "e", "p", "t", ":">>, <<"w", "i", "t", "h", " ">> }

RECURSIVE SumOver(_, _)
SumOver(S, text) ==
    IF S = {} THEN 0
    ELSE LET k == CHOOSE x \in S : TRUE
         IN Occurrences(text, k) + SumOver(S \ {k}, text)

\* C24: the complexity is the sum, over the eight keywords "if ", "elif ",
\* "else:", "for ", "while ", "try:", "except:", "with ", of the number of
\* places of the whole content at which the keyword stands as it is written
\* (case as written, inside a longer word or not); places that overlap all
\* count, so that each "elif " counts twice.
C24_ComplexityOfRawOccurrences ==
    pc = "src_done" =>
        /\ ~IsError(result)
        /\ result.estimated_complexity = SumOver(KeywordsAsClaimed, content)

\* C24: a source of an "elif ", a word that ends in "if " and an upper case
\* "IF " was analysed
C24_Witness ==
    /\ pc = "src_done"
    /\ content = <<"e", "l", "i", "f", " ", "m", "o", "t", "i", "f", " ", "I", "F", " ">>
    /\ result.estimated_complexity = 3

\* the number of times three quotes q stand in the text one after the other:
\* a run of n quotes holds n \div 3 of them
RECURSIVE Triples(_, _, _, _)
Triples(text, q, i, run) ==
    IF i > Len(text) THEN run \div 3
    ELSE IF text[i] = q THEN Triples(text, q, i + 1, run + 1)
    ELSE run \div 3 + Triples(text, q, i + 1, 0)

\* C25: docstrings is half the number of three double quotes, rounded
\* down, plus half the number of three single quotes, rounded down, both
\* counted over the whole content: a delimiter of one kind left over is not
\* paired with one of the other kind.
C25_DocstringsHalvedPerKind ==
    pc = "src_done" =>
        /\ ~IsError(result)
        /\ result.docstrings
             = (Triples(content, "\"", 1, 0) \div 2) + (Triples(content, "'", 1, 0) \div 2)

\* C25: a source with one delimiter of each kind, on two lines, was
\* analysed
C25_Witness ==
    /\ pc = "src_done"
    /\ content = <<"\"", "\"", "\"", "\n", "'", "'", "'">>
    /\ result.docstrings = 0

(***************************************************************************)
(* DataAnalyzer.analyze_json_file on a document whose root is an array     *)
(* written item by item, or a value that is neither array nor mapping.     *)
(* The first items and the items from the tenth on are of any kind, the    *)
(* ones between are numbers.                                               *)
(***************************************************************************)
MaxItems == 11

Scalars ==
    { JInt(<<"1">>),
      [ty |-> "str", repr |-> <<"\"", "a", "\"">>],
      [ty |-> "float", repr |-> <<"1", ".", "5">>],
      [ty |-> "bool", repr |-> <<"t", "r", "u", "e">>],
      [ty |-> "NoneType", repr |-> <<"n", "u", "l", "l">>] }

ItemKinds ==
    { JInt(<<"1">>),
      [ty |-> "str", repr |-> <<"\"", "a", "\"">>],
      [ty |-> "NoneType", repr |-> <<"n", "u", "l", "l">>],
      [ty |-> "list", items |-> <<JInt(<<"1">>)>>],
      [ty |-> "dict", keys |-> <<>>, vals |-> <<>>] }

InitArr ==
    /\ pc = "json_edit"
    /\ content \in Scalars \cup {[ty |-> "list", items |-> <<>>]}
    /\ nchunks = 0
    /\ nwords = 0
    /\ result = None
    /\ mode = "json"
    /\ file = BaseFile(".json")
    /\ CliIdle

AddItem ==
    /\ pc = "json_edit"
    /\ content.ty = "list"
    /\ nchunks < MaxItems
    /\ \E v \in (IF nchunks < VariedKeys \/ nchunks >= 9 THEN ItemKinds
                  ELSE {JInt(<<"1">>)}) :
        content' = [content EXCEPT !.items = Append(@, v)]
    /\ nchunks' = nchunks + 1
    /\ UNCHANGED <<pc, nwords, result, clivars>>

NextArr == AddItem \/ AnalyzeJson

SpecArr == InitArr /\ [][NextArr]_vars

(***************************************************************************)
(* Properties of the summary of an array or scalar root, checked under     *)
(* SpecArr.                                                                *)
(***************************************************************************)
\* the type tags of the first ten items of the array written
FirstTenTags ==
    {content.items[i].ty :
        i \in 1..(IF Len(content.items) < 10 THEN Len(content.items) ELSE 10)}

\* the summary of an array root: its length and the distinct type tags of
\* its first ten items
ArraySummary(st) ==
    /\ st.type = "array"
    /\ st.length = Len(content.items)
    /\ {st.item_types[i] : i \in 1..Len(st.item_types)} = FirstTenTags
    /\ Len(st.item_types) = Cardinality(FirstTenTags)
    /\ Len(st.item_types) <= 10

\* C26 as claimed: an array root gives type array, its length and the
\* distinct type tags of its first ten items, and a root that is neither
\* mapping nor array gives its type tag and nothing else.
C26_ArrayOrOnlyScalarTag ==
    pc = "json_done" =>
        /\ ~IsError(result)
        /\ IF content.ty = "list" THEN ArraySummary(result.structure)
           ELSE /\ result.structure.type = content.ty
                /\ DOMAIN result.structure = {"type"}

\* C26 as amended: an array root gives type array, its length and the
\* distinct type tags of its first ten items, and a root that is neither
\* mapping nor array gives its type tag and a max_depth of 0, nothing else.
C26_ArrayOrScalarTagAndDepth ==
    pc = "json_done" =>
        /\ ~IsError(result)
        /\ IF content.ty = "list" THEN ArraySummary(result.structure)
           ELSE /\ result.structure.type = content.ty
                /\ DOMAIN result.structure = {"type", "max_depth"}
                /\ result.structure.max_depth = 0

\* C26: an array of eleven items was analysed whose last item is the only
\* mapping, and the summary has two or more tags, none of them dict
C26_Witness ==
    /\ pc = "json_done"
    /\ content.ty = "list" /\ Len(content.items) = 11
    /\ content.items[11].ty = "dict"
    /\ result.structure.length = 11
    /\ Len(result.structure.item_types) >= 2
    /\ \A i \in 1..Len(result.structure.item_types) :
          result.structure.item_types[i] # "dict"

(***************************************************************************)
(* Properties of the three renderers on one result, checked under Spec.    *)
(***************************************************************************)
\* the texts the lines of a detailed report start with
LineStarts(report) == {report[i][1] : i \in {j \in 1..Len(report) : report[j] # <<>>}}

\* the variant the detailed report shows
DetailedVariant(report) ==
    LET starts == LineStarts(report)
    IN CASE "Language: Python" \in starts -> "Code"
         [] "Format: CSV (Delimiter: '" \in starts -> "Tabular"
         [] "Format: JSON" \in starts -> "Structured"
         [] "Encoding: " \in starts -> "Text"
         [] "CONTENT ANALYSIS ERROR" \in starts -> "Error"
         [] OTHER -> "Unsupported"

\* the variant the clause of the quick summary names; the clause
\* "<Category> file" names none
QuickVariant(summary) ==
    CASE summary[5] = "Python file with " -> "Code"
      [] summary[5] = "Text file with " -> "Text"
      [] summary[5] = "CSV with " -> "Tabular"
      [] OTHER -> "Other"

\* the detailed report has a line of this label and number
ShowsNumber(report, label, n) ==
    \E i \in 1..Len(report) :
        /\ Len(report[i]) >= 2 /\ report[i][1] = label /\ report[i][2] = n

\* the JSON report has the number under this key of content_analysis
HoldsNumber(doc, key, n) ==
    Field(Field(doc, "content_analysis"), key) = [j |-> "int", v |-> n]

\* C27: the detailed report and the quick summary of a result show the
\* same variant - the quick summary has a clause of its own for code, text
\* and tabular results and the clause "<Category> file" for structured,
\* unsupported and error results - and the numbers of the quick summary are
\* the ones of the detailed report and of the JSON report of the result.
C27_RenderersAgreeOnVariant ==
    Analysed =>
        LET detailed == generate_summary_report(file_info, result, now).ret
            quick == generate_quick_summary(file_info, result).ret
            doc == generate_json_report(file_info, result, now).ret
            variant == DetailedVariant(detailed)
        IN /\ CASE QuickVariant(quick) = "Other" ->
                        variant \in {"Structured", "Unsupported", "Error"}
                [] OTHER -> QuickVariant(quick) = variant
           /\ QuickVariant(quick) = "Code" =>
                /\ ShowsNumber(detailed, "Functions: ", quick[6])
                /\ ShowsNumber(detailed, "Classes: ", quick[8])
                /\ HoldsNumber(doc, "functions", quick[6])
                /\ HoldsNumber(doc, "classes", quick[8])
           /\ QuickVariant(quick) = "Text" =>
                /\ ShowsNumber(detailed, "Words: ", quick[6])
                /\ ShowsNumber(detailed, "Lines: ", quick[8])
                /\ HoldsNumber(doc, "total_words", quick[6])
                /\ HoldsNumber(doc, "total_lines", quick[8])
           /\ QuickVariant(quick) = "Tabular" =>
                /\ ShowsNumber(detailed, "Data Rows: ", quick[6])
                /\ ShowsNumber(detailed, "Columns: ", quick[8])
                /\ HoldsNumber(doc, "data_rows", quick[6])
                /\ HoldsNumber(doc, "columns", quick[8])

\* ---------------------------------------------------------------------
\* C28: in both modes of the command line, the analysis of a file's
\* content starts only for a path that has passed the check that the file
\* exists and can be read, and the check that its size is at most 10 MB.
\* A path that fails a check in the interactive mode leaves the program at
\* its prompt, and in the single file mode makes the run return False,
\* both without an analysis.
PassedChecks(f) == f.exists /\ f.size <= 10 * 1024 * 1024

C28_AnalysisOnlyAfterChecks ==
    /\ (analyses > 0 \/ pc \in {"get_format", "analyze", "display", "save",
                                "continue", "crashed"})
          => PassedChecks(file)
    /\ (mode = "single" /\ ~PassedChecks(file) /\ pc # "single_start")
          => /\ pc = "exit"
             /\ retval = [value |-> FALSE]
             /\ analyses = 0
             /\ result = None

\* C28: a file of exactly 10 MB goes through both checks and is analysed
C28_Witness ==
    /\ file.size = MAX_FILE_SIZE
    /\ file.exists
    /\ analyses = 1
    /\ pc = "display"

\* ---------------------------------------------------------------------
\* C29: run_single_file_mode returns False exactly when the file is
\* missing or unreadable, is larger than the size cap, or its metadata
\* could not be obtained; in every other case it displays a report and
\* returns True, also when the analysis result is an error or an
\* unsupported type; and the save step is reached only when both the
\* metadata and a result exist.
MetadataObtained == PassedChecks(file) /\ analyses > 0

C29_FalseExactlyOnFatalElseTrue ==
    /\ (mode = "single" /\ pc = "exit")
          => /\ retval \in {[value |-> TRUE], [value |-> FALSE]}
             /\ (retval = [value |-> FALSE]) <=> ~MetadataObtained
             /\ (retval = [value |-> TRUE]) => displayed # None
    /\ (mode = "single" /\ MetadataObtained)
          => pc \in {"display", "save", "exit"}
    /\ pc = "save" => file_info # None /\ result # None

\* ---------------------------------------------------------------------
\* C30: in every result of the code analyzer and of the text analyzer all
\* counts are at least 0 and total_lines is at least 1 (an empty file has
\* one line); in every result of the code analyzer blank_lines is at most
\* total_lines and imports + functions + classes + comments + blank_lines
\* is at most total_lines, so that the "Code Lines" value of the detailed
\* report is never negative and the comment ratio is always computed,
\* with a divisor that is not zero.
CodeCounts ==
    {"imports", "functions", "classes", "comments", "docstrings",
     "estimated_complexity", "total_lines", "blank_lines"}

TextCounts ==
    {"total_lines", "total_words", "total_characters", "characters_no_spaces"}

C30_CountsBounded ==
    pc = "py_done" =>
        \A code \in {result} :
        \A text \in {analyze_text_file([file EXCEPT !.ext = ".txt",
                                                    !.text = content.text], NoEnv).ret} :
        \A shown \in {add_python_analysis(code)} :
           /\ \A k \in CodeCounts : code[k] >= 0
           /\ \A k \in TextCounts : text[k] >= 0
           /\ code.total_lines >= 1
           /\ text.total_lines >= 1
           /\ code.total_lines = content.lines
           /\ code.blank_lines <= code.total_lines
           /\ code.imports + code.functions + code.classes + code.comments
                + code.blank_lines <= code.total_lines
           /\ Returned(shown)
           /\ shown.ret[4][1] = "Code Lines: " /\ shown.ret[4][2] >= 0
           /\ Len(shown.ret) = 11 /\ shown.ret[11][1] = "Comment Ratio: "

\* C30: the empty source: one line, which is blank, and no code line
C30_Witness ==
    /\ pc = "py_done"
    /\ content.text = <<>>
    /\ result.total_lines = 1 /\ result.blank_lines = 1
    /\ add_python_analysis(result).ret[4] = <<"Code Lines: ", 0>>

====
